---- MODULE Spec2Model ----
(***************************************************************************)
(* Research Tracker: the persistence gateway (DataService.save_paper, the  *)
(* /api/sync-papers endpoint), the query interface (/api/papers), the      *)
(* scrape orchestrator (/scrape), author-list normalisation and the        *)
(* synthetic ordering timestamps of the scrapers, as state machines over   *)
(* a relational store with SQLAlchemy sessions.                            *)
(***************************************************************************)
EXTENDS Integers, Sequences, FiniteSets, TLC

VARIABLES
  db,      \* the committed contents of the database
  tx,      \* per session: the rows written in its open transaction
  call,    \* per session: the handler it is running and its local variables
  last,    \* per session: the call that returned last, while no other runs
  resp,    \* the last response of the query interface
  clock,   \* the current time, in seconds
  io,      \* the argument and results of a function applied on its own
  run      \* the scrape run: the orchestrator's and the scrapers' variables

vars == <<db, tx, call, last, resp, clock, io, run>>

----------------------------------------------------------------------------
(* Values *)

\* Python None in a string-valued field, and a key that is absent from a dict
None == "<None>"
Missing == "<missing>"
\* titles are sequences of characters; None and an absent key as titles
NoneTitle == <<"<None>">>
MissingTitle == <<"<missing>">>
\* None and an absent key as an author list
NoneList == <<"<None list>">>
MissingList == <<"<missing list>">>
\* a DateTime column holding NULL
NoDate == 0

----------------------------------------------------------------------------
(* Bounds of the model *)

\* the longest author list of a record
MaxAuthors == 3
\* the papers a store may hold before further calls are cut off
MaxPapers == 3
\* the longest batch submitted to sync_papers
MaxBatch == 2
\* the longest short page of a listing
MaxPageLen == 2
\* the most article containers on the JRSSB page
MaxContainers == 3
\* the most records one scraper returns in a run
MaxFound == 2
\* the most calls of a function that a run logs
MaxCalls == 2

----------------------------------------------------------------------------
(* Strings *)

\* str.strip() on the author names of the model
strip(name) ==
  CASE name = " A. Smith" -> "A. Smith"
    [] name = "B. Jones " -> "B. Jones"
    [] name = " others"   -> "others"
    [] name = " "         -> ""
    [] OTHER              -> name

\* str.lower() on one character
LowerChar(c) ==
  CASE c = "A" -> "a" [] c = "B" -> "b" [] c = "C" -> "c" [] c = "D" -> "d"
    [] c = "E" -> "e" [] c = "F" -> "f" [] c = "G" -> "g" [] c = "H" -> "h"
    [] c = "I" -> "i" [] c = "J" -> "j" [] c = "K" -> "k" [] c = "L" -> "l"
    [] c = "M" -> "m" [] c = "N" -> "n" [] c = "O" -> "o" [] c = "P" -> "p"
    [] c = "Q" -> "q" [] c = "R" -> "r" [] c = "S" -> "s" [] c = "T" -> "t"
    [] c = "U" -> "u" [] c = "V" -> "v" [] c = "W" -> "w" [] c = "X" -> "x"
    [] c = "Y" -> "y" [] c = "Z" -> "z"
    [] OTHER -> c

\* a lower() that leaves the title as it is
lower_unchanged(title) == title

lower(title) == [i \in 1..Len(title) |-> LowerChar(title[i])]

\* Python's `keyword in title_lower`
Contains(text, keyword) ==
  \E i \in 0..(Len(text) - Len(keyword)) :
    \A j \in 1..Len(keyword) : text[i + j] = keyword[j]

topic_keywords ==
  <<
    [topic |-> "Machine Learning", keywords |-> <<
       <<"m","a","c","h","i","n","e"," ","l","e","a","r","n","i","n","g">>,
       <<"n","e","u","r","a","l"," ","n","e","t","w","o","r","k">>,
       <<"d","e","e","p"," ","l","e","a","r","n","i","n","g">>,
       <<"a","r","t","i","f","i","c","i","a","l"," ","i","n","t","e","l","l","i","g","e","n","c","e">>,
       <<"a","i">>,
       <<"c","l","a","s","s","i","f","i","c","a","t","i","o","n">>,
       <<"r","e","g","r","e","s","s","i","o","n">>,
       <<"s","u","p","e","r","v","i","s","e","d"," ","l","e","a","r","n","i","n","g">>,
       <<"u","n","s","u","p","e","r","v","i","s","e","d"," ","l","e","a","r","n","i","n","g">>
    >>],
    [topic |-> "Bayesian Statistics", keywords |-> <<
       <<"b","a","y","e","s","i","a","n">>,
       <<"b","a","y","e","s">>,
       <<"m","c","m","c">>,
       <<"p","o","s","t","e","r","i","o","r">>,
       <<"p","r","i","o","r">>,
       <<"m","a","r","k","o","v"," ","c","h","a","i","n">>
    >>],
    [topic |-> "Survival Analysis", keywords |-> <<
       <<"s","u","r","v","i","v","a","l">>,
       <<"h","a","z","a","r","d">>,
       <<"k","a","p","l","a","n","-","m","e","i","e","r">>,
       <<"c","o","x">>,
       <<"t","i","m","e","-","t","o","-","e","v","e","n","t">>
    >>],
    [topic |-> "Causal Inference", keywords |-> <<
       <<"c","a","u","s","a","l">>,
       <<"c","a","u","s","a","l","i","t","y">>,
       <<"t","r","e","a","t","m","e","n","t"," ","e","f","f","e","c","t">>,
       <<"p","r","o","p","e","n","s","i","t","y">>,
       <<"i","n","s","t","r","u","m","e","n","t","a","l"," ","v","a","r","i","a","b","l","e">>
    >>],
    [topic |-> "High-Dimensional Statistics", keywords |-> <<
       <<"h","i","g","h","-","d","i","m","e","n","s","i","o","n","a","l">>,
       <<"s","p","a","r","s","e">>,
       <<"l","a","s","s","o">>,
       <<"r","i","d","g","e">>,
       <<"p","e","n","a","l","i","z","e","d">>,
       <<"r","e","g","u","l","a","r","i","z","a","t","i","o","n">>
    >>],
    [topic |-> "Time Series", keywords |-> <<
       <<"t","i","m","e"," ","s","e","r","i","e","s">>,
       <<"t","e","m","p","o","r","a","l">>,
       <<"f","o","r","e","c","a","s","t","i","n","g">>,
       <<"a","u","t","o","r","e","g","r","e","s","s","i","v","e">>,
       <<"a","r","i","m","a">>
    >>],
    [topic |-> "Nonparametric Statistics", keywords |-> <<
       <<"n","o","n","p","a","r","a","m","e","t","r","i","c">>,
       <<"k","e","r","n","e","l">>,
       <<"b","a","n","d","w","i","d","t","h">>,
       <<"s","m","o","o","t","h","i","n","g">>
    >>],
    [topic |-> "Computational Statistics", keywords |-> <<
       <<"c","o","m","p","u","t","a","t","i","o","n","a","l">>,
       <<"a","l","g","o","r","i","t","h","m">>,
       <<"o","p","t","i","m","i","z","a","t","i","o","n">>,
       <<"s","i","m","u","l","a","t","i","o","n">>,
       <<"m","o","n","t","e"," ","c","a","r","l","o">>
    >>],
    [topic |-> "Biostatistics", keywords |-> <<
       <<"b","i","o","s","t","a","t","i","s","t","i","c","s">>,
       <<"c","l","i","n","i","c","a","l"," ","t","r","i","a","l">>,
       <<"m","e","d","i","c","a","l">>,
       <<"e","p","i","d","e","m","i","o","l","o","g","y">>,
       <<"g","e","n","e","t","i","c","s">>
    >>],
    [topic |-> "Econometrics", keywords |-> <<
       <<"e","c","o","n","o","m","e","t","r","i","c">>,
       <<"e","c","o","n","o","m","i","c">>,
       <<"p","a","n","e","l"," ","d","a","t","a">>,
       <<"e","n","d","o","g","e","n","e","i","t","y">>
    >>],
    [topic |-> "Statistical Learning", keywords |-> <<
       <<"s","t","a","t","i","s","t","i","c","a","l"," ","l","e","a","r","n","i","n","g">>,
       <<"c","r","o","s","s","-","v","a","l","i","d","a","t","i","o","n">>,
       <<"m","o","d","e","l"," ","s","e","l","e","c","t","i","o","n">>,
       <<"p","r","e","d","i","c","t","i","o","n">>
    >>],
    [topic |-> "Hypothesis Testing", keywords |-> <<
       <<"t","e","s","t","i","n","g">>,
       <<"p","-","v","a","l","u","e">>,
       <<"s","i","g","n","i","f","i","c","a","n","c","e">>,
       <<"m","u","l","t","i","p","l","e"," ","t","e","s","t","i","n","g">>
    >>],
    [topic |-> "Experimental Design", keywords |-> <<
       <<"e","x","p","e","r","i","m","e","n","t","a","l"," ","d","e","s","i","g","n">>,
       <<"r","a","n","d","o","m","i","z","a","t","i","o","n">>,
       <<"f","a","c","t","o","r","i","a","l">>,
       <<"d","e","s","i","g","n"," ","o","f"," ","e","x","p","e","r","i","m","e","n","t","s">>
    >>]
  >>

\* DataService.extract_topics_from_title: the labels, in table order, that
\* have a keyword contained in the lower-cased title
extract_topics_from_title(title) ==
  LET title_lower == lower(title)
      Hit(k) == \E n \in 1..Len(topic_keywords[k].keywords) :
                   Contains(title_lower, topic_keywords[k].keywords[n])
      idx == SelectSeq([k \in 1..Len(topic_keywords) |-> k], Hit)
  IN  [n \in 1..Len(idx) |-> topic_keywords[idx[n]].topic]

Range(seq) == {seq[i] : i \in 1..Len(seq)}

----------------------------------------------------------------------------
(* The store: the tables of app/models.py *)

\* DataService._ensure_journals_exist: the five journals (Journal.name is unique)
journals_data ==
  { "Annals of Statistics",
    "Journal of the American Statistical Association",
    "Journal of the Royal Statistical Society Series B",
    "Biometrika",
    "Journal of Machine Learning Research" }

EmptyStore ==
  [ journals      |-> {},   \* Journal.name
    papers        |-> {},   \* [id, title, doi, publication_date, scraped_date,
                            \*  url, abstract, section, journal_id]
    authors       |-> {},   \* [id, name]
    paper_authors |-> {},   \* [paper_id, author_id, author_order]
    topics        |-> {},   \* Topic.name
    paper_topics  |-> {} ]  \* [paper_id, topic]

\* A session transaction: the rows it has flushed and not committed, the
\* publication dates it has assigned to stored papers, the association rows
\* appended through Paper.authors that the next flush will insert, and whether
\* a flush has failed (every later statement raises until rollback()).
EmptyTx ==
  [ failed    |-> FALSE,
    w         |-> EmptyStore,
    upd       |-> {},       \* [id, publication_date]
    unflushed |-> <<>> ]

Merge(a, b) ==
  [ journals      |-> a.journals \cup b.journals,
    papers        |-> a.papers \cup b.papers,
    authors       |-> a.authors \cup b.authors,
    paper_authors |-> a.paper_authors \cup b.paper_authors,
    topics        |-> a.topics \cup b.topics,
    paper_topics  |-> a.paper_topics \cup b.paper_topics ]

\* an update that also stamps the paper's scraped_date
Updated_with_scraped_date(store, upd) ==
  [ store EXCEPT !.papers =
      { IF \E u \in upd : u.id = p.id
          THEN [p EXCEPT !.publication_date =
                           (CHOOSE u \in upd : u.id = p.id).publication_date,
                         !.scraped_date =
                           (CHOOSE u \in upd : u.id = p.id).publication_date]
          ELSE p : p \in store.papers } ]

\* a store with the publication dates of `upd` assigned
Updated(store, upd) ==
  [ store EXCEPT !.papers =
      { IF \E u \in upd : u.id = p.id
          THEN [p EXCEPT !.publication_date =
                           (CHOOSE u \in upd : u.id = p.id).publication_date]
          ELSE p : p \in store.papers } ]

\* what the statements of a session read: the committed rows and its own
View(d, t) == Updated(Merge(d, t.w), t.upd)

\* a rollback that only clears the failure and keeps the flushed rows
rollback_keeps_rows(t) == [t EXCEPT !.failed = FALSE]

\* Session.rollback()
rollback(t) == EmptyTx

\* the primary key (paper_id, author_id) of paper_authors
SameKey(a, b) == a.paper_id = b.paper_id /\ a.author_id = b.author_id

\* Session.flush(): insert the pending association rows; a primary-key
\* violation rolls the transaction back and leaves the session failed
FlushFails(d, t) ==
  \/ \E i, j \in 1..Len(t.unflushed) : i # j /\ SameKey(t.unflushed[i], t.unflushed[j])
  \/ \E i \in 1..Len(t.unflushed) :
       \E r \in View(d, t).paper_authors : SameKey(t.unflushed[i], r)

FailedTx == [EmptyTx EXCEPT !.failed = TRUE]

flush(d, t) ==
  IF t.failed \/ FlushFails(d, t)
    THEN FailedTx
    ELSE [t EXCEPT !.w.paper_authors = @ \cup Range(t.unflushed),
                   !.unflushed = <<>>]

\* Session.commit() of a transaction whose flush succeeds
commit(d, t) == View(d, flush(d, t))

\* the smallest id not in use
NewId(used) == CHOOSE i \in 1..(Cardinality(used) + 1) :
                 i \notin used /\ \A j \in 1..(i - 1) : j \in used

Ids(rows) == {r.id : r \in rows}

----------------------------------------------------------------------------
(* Sessions and handlers *)

\* database sessions (get_db yields one per request; a script holds one)
Sessions == {1, 2}

Idle == [op |-> "idle"]

PaperIds == Ids(db.papers) \cup UNION {Ids(tx[t].w.papers) : t \in Sessions}
AuthorIds == Ids(db.authors) \cup UNION {Ids(tx[t].w.authors) : t \in Sessions}

\* a row another open transaction has inserted under a unique key makes the
\* insert wait for that transaction to end
DoiHeldElsewhere(s, doi) ==
  \E t \in Sessions \ {s} : \E p \in tx[t].w.papers : p.doi = doi
TopicHeldElsewhere(s, names) ==
  \E t \in Sessions \ {s} : tx[t].w.topics \cap names # {}

\* the handler of session s returns ret
Return(s, op, rec, ret, snap, added, paper) ==
  /\ call' = [call EXCEPT ![s] = Idle]
  /\ last' = [last EXCEPT ![s] =
                [op |-> op, rec |-> rec, ret |-> ret, snap |-> snap,
                 added |-> added, paper |-> paper]]

\* a lookup that trusts the record's journal name
journal_of_unchecked(v, name) == name

\* save_paper: db.query(Journal).filter(Journal.name == paper_data['journal']).first()
journal_of(v, name) == IF name \in v.journals THEN name ELSE None

\* a duplicate check that only recognises papers carrying a doi
existing_with_doi(v, title, journal_id) ==
  {p \in v.papers : p.title = title /\ p.journal_id = journal_id /\ p.doi # None}

\* save_paper: the papers with the record's title in the journal
existing(v, title, journal_id) ==
  {p \in v.papers : p.title = title /\ p.journal_id = journal_id}

\* a handler that returns False without rolling the session back
save_paper_except_no_rollback(s, rec, snap, added) ==
  /\ tx' = [tx EXCEPT ![s].failed = TRUE]
  /\ Return(s, "save_paper", rec, FALSE, snap, added, 0)
  /\ UNCHANGED <<db, resp, clock, io, run>>

\* save_paper, `except IntegrityError` / `except Exception`: rollback, return False
save_paper_except(s, rec, snap, added) ==
  /\ tx' = [tx EXCEPT ![s] = rollback(tx[s])]
  /\ Return(s, "save_paper", rec, FALSE, snap, added, 0)
  /\ UNCHANGED <<db, resp, clock, io, run>>

\* save_paper up to the duplicate check. rec.rec.fault names the statement of
\* this call at which the database raises an error of its own (connection
\* lost, database locked): "author", "topic", "commit" or "none".
save_paper_lookup(s, rec) ==
  /\ call[s].op = "idle"
  /\ LET v == View(db, tx[s])
         journal == journal_of(v, rec.journal)
     IN  IF rec.journal = Missing \/ tx[s].failed
           THEN save_paper_except(s, rec, db, FALSE)
         ELSE IF journal = None
           THEN /\ Return(s, "save_paper", rec, FALSE, db, FALSE, 0)
                /\ UNCHANGED <<db, tx, resp, clock, io, run>>
         ELSE IF rec.title = MissingTitle
           THEN save_paper_except(s, rec, db, FALSE)
         ELSE IF existing(v, rec.title, journal) # {}
           THEN /\ Return(s, "save_paper", rec, FALSE, db, FALSE, 0)
                /\ UNCHANGED <<db, tx, resp, clock, io, run>>
         ELSE /\ call' = [call EXCEPT ![s] =
                            [op |-> "save_paper", pc |-> "insert", rec |-> rec,
                             paper |-> 0, i |-> 1, snap |-> db]]
              /\ last' = [last EXCEPT ![s] = [op |-> "none"]]
              /\ UNCHANGED <<db, tx, resp, clock, io, run>>

\* paper_data.get(key): None when the key is absent
optional(paper_data, key) ==
  IF key \in DOMAIN paper_data /\ paper_data[key] # Missing
    THEN paper_data[key] ELSE None

\* the Paper row save_paper builds; Paper.scraped_date defaults to utcnow()
new_paper(id, rec, journal_id, now) ==
  [ id |-> id, title |-> rec.title, doi |-> rec.doi,
    publication_date |-> rec.publication_date,
    scraped_date |-> IF rec.scraped_date = NoDate THEN now ELSE rec.scraped_date,
    url |-> optional(rec, "url"), abstract |-> optional(rec, "abstract"),
    section |-> optional(rec, "section"),
    journal_id |-> journal_id ]

\* Paper.doi is unique (NULLs do not collide)
DoiTaken(v, doi) == doi # None /\ \E p \in v.papers : p.doi = doi

\* save_paper: self.db.add(paper); self.db.flush()
save_paper_insert(s) ==
  /\ call[s].op = "save_paper" /\ call[s].pc = "insert"
  /\ LET c == call[s]
         v == View(db, tx[s])
         id == NewId(PaperIds)
     IN  /\ ~(c.rec.doi # None /\ DoiHeldElsewhere(s, c.rec.doi))
         /\ IF DoiTaken(v, c.rec.doi)
              THEN save_paper_except(s, c.rec, c.snap, TRUE)
              ELSE /\ tx' = [tx EXCEPT ![s].w.papers =
                               @ \cup {new_paper(id, c.rec, c.rec.journal, clock)}]
                   /\ call' = [call EXCEPT ![s].pc = "authors", ![s].paper = id]
                   /\ UNCHANGED <<db, last, resp, clock, io, run>>

\* save_paper: `if 'authors' in paper_data and paper_data['authors']`
authors_of(rec) ==
  IF rec.authors \in {NoneList, MissingList} THEN <<>> ELSE rec.authors

\* an association row that drops the position in the byline
paper_authors_row_unordered(paper_id, author_id, order) ==
  [paper_id |-> paper_id, author_id |-> author_id, author_order |-> 0]

\* save_paper: paper_authors.insert().values(paper_id, author_id, author_order)
paper_authors_row(paper_id, author_id, order) ==
  [paper_id |-> paper_id, author_id |-> author_id, author_order |-> order]

\* DataService.get_or_create_author: the rows .first() may return
authors_named(v, name) == {a \in v.authors : a.name = name}

\* save_paper: one iteration of `for order, author_name in enumerate(authors)`
save_paper_author(s) ==
  /\ call[s].op = "save_paper" /\ call[s].pc = "authors"
  /\ call[s].i <= Len(authors_of(call[s].rec))
  /\ LET c == call[s]
         v == View(db, tx[s])
         author_name == authors_of(c.rec)[c.i]
         order == c.i - 1
         found == authors_named(v, strip(author_name))
         created == [id |-> NewId(AuthorIds), name |-> strip(author_name)]
     IN  IF author_name = None
           THEN save_paper_except(s, c.rec, c.snap, TRUE)
         ELSE IF strip(author_name) = ""
           THEN /\ call' = [call EXCEPT ![s].i = @ + 1]
                /\ UNCHANGED <<db, tx, last, resp, clock, io, run>>
         ELSE IF c.rec.fault = "author"
           THEN save_paper_except(s, c.rec, c.snap, TRUE)
         ELSE \E author \in (IF found = {} THEN {created} ELSE found) :
                LET row == paper_authors_row(c.paper, author.id, order)
                IN  IF \E r \in v.paper_authors : SameKey(r, row)
                      THEN save_paper_except(s, c.rec, c.snap, TRUE)
                      ELSE /\ tx' = [tx EXCEPT
                                       ![s].w.authors = @ \cup {author},
                                       ![s].w.paper_authors = @ \cup {row}]
                           /\ call' = [call EXCEPT ![s].i = @ + 1]
                           /\ UNCHANGED <<db, last, resp, clock, io, run>>

\* save_paper: topic detection, get_or_create_topic, paper.topics.append
save_paper_topics(s) ==
  /\ call[s].op = "save_paper" /\ call[s].pc = "authors"
  /\ call[s].i > Len(authors_of(call[s].rec))
  /\ LET c == call[s]
         v == View(db, tx[s])
     IN  IF c.rec.title = NoneTitle \/ c.rec.fault = "topic"
           THEN save_paper_except(s, c.rec, c.snap, TRUE)
           ELSE LET detected_topics == Range(extract_topics_from_title(c.rec.title))
                    fresh == detected_topics \ v.topics
                IN  /\ ~TopicHeldElsewhere(s, fresh)
                    /\ tx' = [tx EXCEPT
                                ![s].w.topics = @ \cup fresh,
                                ![s].w.paper_topics = @ \cup
                                   {[paper_id |-> c.paper, topic |-> n] : n \in detected_topics}]
                    /\ call' = [call EXCEPT ![s].pc = "commit"]
                    /\ UNCHANGED <<db, last, resp, clock, io, run>>

\* save_paper: self.db.commit(); return True
save_paper_commit(s) ==
  /\ call[s].op = "save_paper" /\ call[s].pc = "commit"
  /\ LET c == call[s]
     IN  IF c.rec.fault = "commit" \/ FlushFails(db, tx[s])
           THEN save_paper_except(s, c.rec, c.snap, TRUE)
           ELSE /\ db' = commit(db, tx[s])
                /\ tx' = [tx EXCEPT ![s] = EmptyTx]
                /\ Return(s, "save_paper", c.rec, TRUE, c.snap, TRUE, c.paper)
                /\ UNCHANGED <<resp, clock, io, run>>

----------------------------------------------------------------------------
(* The query interface *)

NotOthers(name) == name # "others"

\* a rule that puts "others" first
others_first(author_names) ==
  IF "others" \in Range(author_names)
    THEN <<"others">> \o SelectSeq(author_names, NotOthers)
    ELSE author_names

\* api_papers.format_authors, on the names in stored order
format_authors(author_names) ==
  IF "others" \in Range(author_names)
    THEN SelectSeq(author_names, NotOthers) \o <<"others">>
    ELSE author_names

\* the orders in which a query may return `rows` under ORDER BY key
\* (descending when desc): rows with equal keys come in any order
Orderings(rows, key, desc) ==
  LET n == Cardinality(rows)
  IN  { seq \in [1..n -> rows] :
          /\ \A i, j \in 1..n : i # j => seq[i] # seq[j]
          /\ \A i \in 1..(n - 1) :
               IF desc THEN key[seq[i]] >= key[seq[i + 1]]
                       ELSE key[seq[i]] <= key[seq[i + 1]] }

\* Paper.authors: the authors joined through paper_authors,
\* order_by=paper_authors.c.author_order
Paper_authors(store, paper_id) ==
  LET rows == {r \in store.paper_authors : r.paper_id = paper_id}
      name(r) == (CHOOSE a \in store.authors : a.id = r.author_id).name
  IN  { [i \in 1..Len(seq) |-> name(seq[i])] :
          seq \in Orderings(rows, [r \in rows |-> r.author_order], FALSE) }

\* coalesce(Paper.publication_date, Paper.scraped_date)
EffectiveDate(p) ==
  IF p.publication_date # NoDate THEN p.publication_date ELSE p.scraped_date

\* GET /api/papers (no filter): the stored papers by effective date, latest first
api_papers ==
  /\ \A s \in Sessions : call[s].op = "idle"
  /\ db.papers # {}
  /\ \E papers \in Orderings(db.papers, [p \in db.papers |-> EffectiveDate(p)], TRUE) :
       \E names \in [1..Len(papers) -> UNION {Paper_authors(db, p.id) : p \in db.papers}] :
         /\ \A k \in 1..Len(papers) : names[k] \in Paper_authors(db, papers[k].id)
         /\ resp' = [k \in 1..Len(papers) |->
                       [ id |-> papers[k].id,
                         title |-> papers[k].title,
                         authors |-> format_authors(names[k]),
                         journal |-> papers[k].journal_id,
                         publication_date |-> papers[k].publication_date,
                         scraped_date |-> papers[k].scraped_date ]]
  /\ UNCHANGED <<db, tx, call, last, clock, io, run>>

----------------------------------------------------------------------------
(* POST /api/sync-papers *)

\* dict.get(key): None for an absent key
get(value) == IF value = Missing THEN None ELSE value
get_title(title) == IF title = MissingTitle THEN NoneTitle ELSE title

\* Python truthiness of an optional string
Truthy(value) == value \notin {Missing, None, ""}

\* datetime.fromisoformat on the date strings of the model
IsoDates == {"2025-07-04T00:00:00", "2025-07-05T00:00:00"}
fromisoformat(text) ==
  CASE text = "2025-07-04T00:00:00" -> 1751587200
    [] text = "2025-07-05T00:00:00" -> 1751673600
\* the value of `pub_date` after the try/except around fromisoformat
parsed_or(text, default) ==
  IF Truthy(text) /\ text \in IsoDates THEN fromisoformat(text) ELSE default

\* the handler returns: the response dict, or HTTPException(500)
sync_return(s, ret) ==
  Return(s, "sync_papers", call[s].rec, ret, call[s].snap, FALSE, 0)

\* sync_papers: DataService(db) -- _ensure_journals_exist and its commit.
\* The records of papers_data are drawn one at a time as the loop reaches
\* them (k counts them), which yields every batch of up to MaxBatch records.
sync_papers_begin(s) ==
  /\ call[s].op = "idle"
  /\ db' = [commit(db, tx[s]) EXCEPT !.journals = @ \cup journals_data]
  /\ tx' = [tx EXCEPT ![s] = EmptyTx]
  /\ call' = [call EXCEPT ![s] =
                [op |-> "sync_papers", pc |-> "record", rec |-> <<>>,
                 k |-> 0, i |-> 1, paper |-> 0, synced_count |-> 0,
                 updated_count |-> 0, snap |-> db]]
  /\ last' = [last EXCEPT ![s] = [op |-> "none"]]
  /\ UNCHANGED <<resp, clock, io, run>>

\* `continue`, also from the inner `except Exception`: the next record
sync_continue(s, paper_data, t, updated) ==
  /\ tx' = [tx EXCEPT ![s] = t]
  /\ call' = [call EXCEPT ![s].k = call[s].k + (IF call[s].pc = "record" THEN 1 ELSE 0),
                          ![s].rec = paper_data, ![s].pc = "record", ![s].i = 1,
                          ![s].updated_count = @ + updated]
  /\ UNCHANGED <<db, last, resp, clock, io, run>>

\* sync_papers: one record up to db.add(paper); db.flush()
sync_papers_record(s, paper_data) ==
  /\ call[s].op = "sync_papers" /\ call[s].pc = "record"
  /\ call[s].k < MaxBatch
  /\ LET c == call[s]
         t == tx[s]
         v == View(db, t)
         journal == journal_of(v, paper_data.journal)
         title == get_title(paper_data.title)
         found == existing(v, title, journal)
         id == NewId(PaperIds)
         flushed == flush(db, t)
         paper == [ id |-> id, title |-> title, doi |-> get(paper_data.doi),
                    publication_date |-> parsed_or(paper_data.publication_date, NoDate),
                    scraped_date |-> parsed_or(paper_data.scraped_date, clock),
                    url |-> optional(paper_data, "url"),
                    abstract |-> optional(paper_data, "abstract"),
                    section |-> optional(paper_data, "section"),
                    journal_id |-> journal ]
     IN  IF ~Truthy(paper_data.journal) THEN sync_continue(s, paper_data, t, 0)
         ELSE IF t.failed THEN sync_continue(s, paper_data, t, 0)
         ELSE IF journal = None THEN sync_continue(s, paper_data, t, 0)
         ELSE IF found # {}
           THEN \E existing_paper \in found :
                  LET pub_date == parsed_or(paper_data.publication_date, NoDate)
                  IN  IF /\ Truthy(paper_data.publication_date)
                         /\ paper_data.publication_date \in IsoDates
                         /\ existing_paper.publication_date # pub_date
                        THEN sync_continue(s, paper_data,
                               [t EXCEPT !.upd =
                                  {u \in @ : u.id # existing_paper.id} \cup
                                  {[id |-> existing_paper.id, publication_date |-> pub_date]}],
                               1)
                        ELSE sync_continue(s, paper_data, t, 0)
         ELSE /\ ~(paper.doi # None /\ DoiHeldElsewhere(s, paper.doi))
              /\ IF flushed.failed \/ DoiTaken(v, paper.doi)
                   THEN sync_continue(s, paper_data, FailedTx, 0)
                 ELSE IF paper_data.authors = NoneList
                   THEN sync_continue(s, paper_data, [flushed EXCEPT !.w.papers = @ \cup {paper}], 0)
                 ELSE /\ tx' = [tx EXCEPT ![s] = [flushed EXCEPT !.w.papers = @ \cup {paper}]]
                      /\ call' = [call EXCEPT ![s].k = @ + 1, ![s].rec = paper_data,
                                              ![s].pc = "authors", ![s].i = 1,
                                              ![s].paper = id]
                      /\ UNCHANGED <<db, last, resp, clock, io, run>>

\* sync_papers: one iteration of `for author_name in authors`
sync_papers_author(s) ==
  /\ call[s].op = "sync_papers" /\ call[s].pc = "authors"
  /\ LET c == call[s]
         paper_data == c.rec
         authors == IF paper_data.authors = MissingList THEN <<>>
                    ELSE paper_data.authors
     IN  /\ c.i <= Len(authors)
         /\ LET author_name == authors[c.i]
                t == tx[s]
                v == View(db, t)
                found == authors_named(v, author_name)
                flushed == flush(db, t)
                created == [id |-> NewId(AuthorIds), name |-> author_name]
            IN  IF ~Truthy(author_name)
                  THEN /\ call' = [call EXCEPT ![s].i = @ + 1]
                       /\ UNCHANGED <<db, tx, last, resp, clock, io, run>>
                ELSE IF found = {} /\ flushed.failed
                  THEN sync_continue(s, paper_data, FailedTx, 0)
                ELSE \E author \in (IF found = {} THEN {created} ELSE found) :
                       LET row == [paper_id |-> c.paper, author_id |-> author.id,
                                   author_order |-> 0]
                           base == IF found = {}
                                     THEN [flushed EXCEPT !.w.authors = @ \cup {author}]
                                     ELSE t
                       IN  /\ tx' = [tx EXCEPT ![s] =
                                       [base EXCEPT !.unflushed = Append(@, row)]]
                           /\ call' = [call EXCEPT ![s].i = @ + 1]
                           /\ UNCHANGED <<db, last, resp, clock, io, run>>

\* sync_papers: topic detection and attachment, synced_count += 1
sync_papers_topics(s) ==
  /\ call[s].op = "sync_papers" /\ call[s].pc = "authors"
  /\ LET c == call[s]
         paper_data == c.rec
         authors == IF paper_data.authors = MissingList THEN <<>> ELSE paper_data.authors
         t == tx[s]
         v == View(db, t)
     IN  /\ c.i > Len(authors)
         /\ IF paper_data.title = NoneTitle
              THEN sync_continue(s, paper_data, t, 0)
              ELSE LET title == IF paper_data.title = MissingTitle THEN <<>>
                                ELSE paper_data.title
                       detected_topics == Range(extract_topics_from_title(title))
                       fresh == detected_topics \ v.topics
                       flushed == IF fresh = {} THEN t ELSE flush(db, t)
                   IN  /\ ~TopicHeldElsewhere(s, fresh)
                       /\ IF flushed.failed
                            THEN sync_continue(s, paper_data, FailedTx, 0)
                            ELSE /\ tx' = [tx EXCEPT ![s] =
                                             [flushed EXCEPT
                                                !.w.topics = @ \cup fresh,
                                                !.w.paper_topics = @ \cup
                                                  {[paper_id |-> c.paper, topic |-> n] :
                                                     n \in detected_topics}]]
                                 /\ call' = [call EXCEPT ![s].pc = "record",
                                               ![s].i = 1, ![s].synced_count = @ + 1]
                                 /\ UNCHANGED <<db, last, resp, clock, io, run>>

\* sync_papers: db.commit() and the response, or rollback and HTTPException(500)
sync_papers_commit(s) ==
  /\ call[s].op = "sync_papers" /\ call[s].pc = "record"
  /\ LET c == call[s]
     IN  IF tx[s].failed \/ FlushFails(db, tx[s])
           THEN /\ tx' = [tx EXCEPT ![s] = rollback(tx[s])]
                /\ sync_return(s, [status |-> "error"])
                /\ UNCHANGED <<db, resp, clock, io, run>>
           ELSE /\ db' = commit(db, tx[s])
                /\ tx' = [tx EXCEPT ![s] = EmptyTx]
                /\ sync_return(s, [ status |-> "success",
                                    synced_papers |-> c.synced_count,
                                    updated_papers |-> c.updated_count,
                                    total_processed |-> c.k ])
                /\ UNCHANGED <<resp, clock, io, run>>

----------------------------------------------------------------------------
(* Inputs *)

Title1 == <<"T","r","e","e","s">>
Title2 == <<"S","p","a","r","s","e"," ","M","C","M","C">>

\* the instant the handlers run at, in seconds
Now0 == 1751760000

Room == Cardinality(db.papers) < MaxPapers

InitStore ==
  /\ db = [EmptyStore EXCEPT !.journals = journals_data]
  /\ tx = [s \in Sessions |-> EmptyTx]
  /\ call = [s \in Sessions |-> Idle]
  /\ last = [s \in Sessions |-> [op |-> "none"]]
  /\ resp = <<>>
  /\ clock = Now0
  /\ io = <<>>
  /\ run = <<>>

----------------------------------------------------------------------------
(* Spec: save_paper and sync_papers, one call at a time on one session,    *)
(* over records that differ in journal and title                           *)

SaveRecords ==
  [ journal : {"Annals of Statistics", "Biometrika", "Nature", None, Missing},
    title : {Title1, Title2},
    doi : {None},
    authors : {<<"A. Smith">>},
    publication_date : {NoDate},
    scraped_date : {NoDate},
    fault : {"none"} ]

SyncRecords ==
  [ journal : {"Annals of Statistics", "Biometrika", "Nature", Missing},
    title : {Title1, Title2},
    doi : {None},
    authors : {<<"A. Smith">>},
    publication_date : {Missing},
    scraped_date : {Missing} ]

Init == InitStore

Next ==
  \/ \E rec \in SaveRecords : Room /\ save_paper_lookup(1, rec)
  \/ save_paper_insert(1)
  \/ save_paper_author(1)
  \/ save_paper_topics(1)
  \/ save_paper_commit(1)
  \/ Room /\ sync_papers_begin(1)
  \/ \E paper_data \in SyncRecords : sync_papers_record(1, paper_data)
  \/ sync_papers_author(1)
  \/ sync_papers_topics(1)
  \/ sync_papers_commit(1)

Spec == Init /\ [][Next]_vars

\* C1: no two stored papers share both title and journal, and a save_paper
\* call for a (title, journal) that is already stored returns False and
\* inserts nothing.
C1_UniqueTitleJournal ==
  /\ \A p, q \in db.papers :
       (p.title = q.title /\ p.journal_id = q.journal_id) => p.id = q.id
  /\ \A s \in Sessions :
       ( /\ last[s].op = "save_paper"
         /\ \E p \in last[s].snap.papers :
              p.title = last[s].rec.title /\ p.journal_id = last[s].rec.journal )
       => (last[s].ret = FALSE /\ db = last[s].snap)

\* a second save of a stored (title, journal) has returned, with two papers
\* of one title stored under different journals
C1_Witness ==
  /\ last[1].op = "save_paper" /\ last[1].ret = FALSE
  /\ \E p \in last[1].snap.papers :
       p.title = last[1].rec.title /\ p.journal_id = last[1].rec.journal
  /\ \E p, q \in db.papers : p.title = q.title /\ p.id # q.id

\* C10: every stored paper refers to a stored journal, and save_paper inserts
\* nothing for a record whose journal is absent, None or not stored.
C10_JournalReference ==
  /\ \A p \in db.papers : p.journal_id # None /\ p.journal_id \in db.journals
  /\ \A s \in Sessions :
       (last[s].op = "save_paper" /\ last[s].rec.journal \notin last[s].snap.journals)
       => (last[s].ret = FALSE /\ db = last[s].snap)

\* a record of an unknown journal has been refused by save_paper after
\* sync_papers had skipped one and stored another record
C10_Witness ==
  /\ last[1].op = "save_paper" /\ last[1].rec.journal = "Nature"
  /\ db.papers # {}

----------------------------------------------------------------------------
(* SpecAtomic: save_paper calls that fail part-way                         *)

FailingRecords ==
  [ journal : {"Annals of Statistics"},
    title : {Title1, Title2, NoneTitle},
    doi : {None, "10.1214/24-AOS1"},
    authors : { <<"A. Smith", "B. Jones ">>, <<"A. Smith", " A. Smith">>,
                <<"B. Jones ", None>> },
    publication_date : {NoDate},
    scraped_date : {NoDate},
    fault : {"none", "author", "topic", "commit"} ]

NextAtomic ==
  \/ \E rec \in FailingRecords : Room /\ save_paper_lookup(1, rec)
  \/ save_paper_insert(1)
  \/ save_paper_author(1)
  \/ save_paper_topics(1)
  \/ save_paper_commit(1)

SpecAtomic == InitStore /\ [][NextAtomic]_vars

\* C5: when save_paper fails after the paper row was added, it returns False
\* and leaves the store as it was when the call began, with nothing of the
\* call left in the session for a later commit to write.
C5_Atomic ==
  \A s \in Sessions :
    (last[s].op = "save_paper" /\ last[s].added /\ last[s].ret = FALSE)
    => /\ db = last[s].snap
       /\ call[s].op = "idle" => tx[s] = EmptyTx

\* a call failed at commit, after it had added its paper, its two authors
\* and its topics, with another paper already stored
C5_Witness ==
  /\ last[1].op = "save_paper" /\ last[1].added /\ last[1].ret = FALSE
  /\ last[1].rec.fault = "commit" /\ last[1].rec.title = Title2
  /\ last[1].rec.doi = None
  /\ last[1].rec.authors = <<"A. Smith", "B. Jones ">>
  /\ db.papers # {} /\ db.topics = {}
  /\ call[1].op = "idle"

----------------------------------------------------------------------------
(* SpecAuthors: save_paper over author lists, read back by /api/papers     *)

AuthorNames == {"A. Smith", "B. Jones ", "others", " others", " "}

AuthorLists == UNION {[1..n -> AuthorNames] : n \in 0..MaxAuthors}

BylineRecords ==
  [ journal : {"Annals of Statistics"},
    title : {Title2},
    doi : {None},
    authors : AuthorLists,
    publication_date : {NoDate},
    scraped_date : {NoDate},
    fault : {"none"} ]

\* the store after save_paper stored Title1 by ["others", "B. Jones"] at Now0
StoreWithPaper ==
  [ EmptyStore EXCEPT
      !.journals = journals_data,
      !.papers = {[ id |-> 1, title |-> Title1, doi |-> None,
                    publication_date |-> NoDate, scraped_date |-> Now0,
                    url |-> None, abstract |-> None, section |-> None,
                    journal_id |-> "Annals of Statistics" ]},
      !.authors = {[id |-> 1, name |-> "others"], [id |-> 2, name |-> "B. Jones"]},
      !.paper_authors = {paper_authors_row(1, 1, 0), paper_authors_row(1, 2, 1)} ]

InitAuthors ==
  /\ db = StoreWithPaper
  /\ tx = [s \in Sessions |-> EmptyTx]
  /\ call = [s \in Sessions |-> Idle]
  /\ last = [s \in Sessions |-> [op |-> "none"]]
  /\ resp = <<>>
  /\ clock = Now0
  /\ io = <<>>
  /\ run = <<>>

\* the records submitted are new ones: their title is not stored yet
NextAuthors ==
  \/ \E rec \in BylineRecords :
       /\ existing(db, rec.title, rec.journal) = {}
       /\ save_paper_lookup(1, rec)
  \/ save_paper_insert(1)
  \/ save_paper_author(1)
  \/ save_paper_topics(1)
  \/ save_paper_commit(1)
  \/ api_papers

SpecAuthors == InitAuthors /\ [][NextAuthors]_vars

\* the names a byline is expected to read back as: stripped, blanks
\* dropped, in input order, "others" moved behind the rest
ExpectedByline(authors) ==
  LET stripped == [i \in 1..Len(authors) |-> strip(authors[i])]
      Kept(i) == stripped[i] # "" /\ stripped[i] # "others"
      idx == SelectSeq([i \in 1..Len(authors) |-> i], Kept)
  IN  [n \in 1..Len(idx) |-> stripped[idx[n]]] \o
      (IF \E i \in 1..Len(authors) : stripped[i] = "others"
         THEN <<"others">> ELSE <<>>)

\* C2: the paper a save_paper call stored is returned by /api/papers with
\* its authors in the byline order of the record, "others" last; the paper
\* stored before it still reads ["B. Jones", "others"].
C2_RoundTrip ==
  \A k \in 1..Len(resp) :
    /\ ( last[1].op = "save_paper" /\ last[1].ret = TRUE
         /\ resp[k].id = last[1].paper )
       => resp[k].authors = ExpectedByline(last[1].rec.authors)
    /\ resp[k].id = 1 => resp[k].authors = <<"B. Jones", "others">>

\* the record by [A. Smith, B. Jones, others] was stored and read back
C2_Witness ==
  /\ last[1].op = "save_paper" /\ last[1].ret = TRUE
  /\ last[1].rec.authors = <<"A. Smith", "B. Jones ", "others">>
  /\ \E k \in 1..Len(resp) :
       resp[k].id = last[1].paper /\ resp[k].authors = <<"A. Smith", "B. Jones", "others">>

----------------------------------------------------------------------------
(* SpecNorm: the "others" rule of the scrapers and of the serializers      *)

\* format_authors_filter (the Jinja2 filter), on a list of names
format_authors_filter(authors) ==
  IF authors = <<>> THEN <<>>
  ELSE IF "others" \in Range(authors)
    THEN SelectSeq(authors, NotOthers) \o <<"others">>
    ELSE authors

\* JRSSBScraper._extract_paper_from_container, on the split author list:
\* `if 'others' in authors: authors = [...] + ['others']`
jrssb_others_last(authors) ==
  IF "others" \in Range(authors)
    THEN SelectSeq(authors, NotOthers) \o <<"others">>
    ELSE authors

Normalizers == {"format_authors", "format_authors_filter", "jrssb_others_last"}

Normalize(fn, authors) ==
  CASE fn = "format_authors"        -> format_authors(authors)
    [] fn = "format_authors_filter" -> format_authors_filter(authors)
    [] fn = "jrssb_others_last"     -> jrssb_others_last(authors)

NormNames == {"A. Smith", "B. Jones", "others", "et al."}

InitNorm ==
  /\ db = EmptyStore
  /\ tx = [s \in Sessions |-> EmptyTx]
  /\ call = [s \in Sessions |-> Idle]
  /\ last = [s \in Sessions |-> [op |-> "none"]]
  /\ resp = <<>>
  /\ clock = Now0
  /\ run = <<>>
  /\ \E authors \in UNION {[1..n -> NormNames] : n \in 0..MaxAuthors} :
       io = [stage |-> "input", fn |-> "none", input |-> authors,
             once |-> <<>>, twice |-> <<>>]

\* the rule applied to the list
NormalizeOnce(fn) ==
  /\ io.stage = "input"
  /\ io' = [io EXCEPT !.stage = "once", !.fn = fn, !.once = Normalize(fn, io.input)]
  /\ UNCHANGED <<db, tx, call, last, resp, clock, run>>

\* the rule applied to its own result
NormalizeTwice ==
  /\ io.stage = "once"
  /\ io' = [io EXCEPT !.stage = "twice", !.twice = Normalize(io.fn, io.once)]
  /\ UNCHANGED <<db, tx, call, last, resp, clock, run>>

NextNorm ==
  \/ \E fn \in Normalizers : NormalizeOnce(fn)
  \/ NormalizeTwice

SpecNorm == InitNorm /\ [][NextNorm]_vars

IsSentinel(name) == name \in {"others", "et al."}
NotSentinel(name) == ~IsSentinel(name)

----------------------------------------------------------------------------
(* SpecOrder: the ordering timestamps of JASAScraper.scrape_papers (direct *)
(* scraping, pages 0..2) and of JRSSBScraper.scrape_papers                 *)

\* the multiplier of page_num in `page_num * 1000 + i`
PageStride == 1000
\* range(3): the pages scraped
JasaPages == 3

\* the page lengths tried: short pages, and pages around the stride
PageLens == (0..MaxPageLen) \cup {PageStride, PageStride + 1}

\* requested: the listing pages asked for; strategies: the strategies
\* invoked; feeds: the feed candidates asked for
NoRun == [scraper |-> "none", pc |-> "idle", base_time |-> 0, page_num |-> 0,
          n |-> 0, papers |-> <<>>, requested |-> <<>>, strategies |-> <<>>,
          feeds |-> <<>>]

\* paper['page_order'] = page_num * 1000 + i
page_order(page_num, i) == page_num * PageStride + i

\* a record of page `page_num`, i-th of page_papers (from 0), after
\* scrape_papers set its page_order and scraped_date
jasa_paper(base_time, page_num, i) ==
  [page_num |-> page_num, page_order |-> page_order(page_num, i),
   scraped_date |-> base_time - page_order(page_num, i)]

\* a record of the i-th article container (from 0)
jrssb_paper(base_time, i) ==
  [page_num |-> 0, page_order |-> i, scraped_date |-> base_time - i]

\* the order of a stable sort by page_order: equal keys keep their positions
ByPageOrder(a, b) ==
  \/ a.paper.page_order < b.paper.page_order
  \/ a.paper.page_order = b.paper.page_order /\ a.pos < b.pos

\* papers.sort(key=lambda p: p.get('page_order', 999999))
sort_by_page_order(papers) ==
  LET tagged == [k \in 1..Len(papers) |-> [pos |-> k, paper |-> papers[k]]]
      sorted == SortSeq(tagged, ByPageOrder)
  IN  [k \in 1..Len(papers) |-> sorted[k].paper]

\* base_time = datetime.utcnow(), before the page loop
jasa_begin ==
  /\ run.pc = "idle"
  /\ run' = [NoRun EXCEPT !.scraper = "JASA", !.pc = "pages", !.base_time = clock,
                          !.strategies = <<"direct">>]
  /\ UNCHANGED <<db, tx, call, last, resp, clock, io>>

\* a page loop without the `if not page_papers: break`
jasa_page_no_break(len) ==
  /\ run.scraper = "JASA" /\ run.pc = "pages" /\ run.page_num < JasaPages
  /\ run' = [run EXCEPT
       !.papers = @ \o [k \in 1..len |->
                          jasa_paper(run.base_time, run.page_num, k - 1)],
       !.requested = Append(@, run.page_num),
       !.page_num = @ + 1,
       !.pc = IF run.page_num + 1 < JasaPages THEN "pages" ELSE "sort"]
  /\ UNCHANGED <<db, tx, call, last, resp, clock, io>>

\* one iteration of `for page_num in range(3)`: scrape_page returned len
\* records; an empty page (or an exception) ends the loop
jasa_page(len) ==
  /\ run.scraper = "JASA" /\ run.pc = "pages" /\ run.page_num < JasaPages
  /\ IF len = 0
       THEN run' = [run EXCEPT !.pc = "sort",
                               !.requested = Append(@, run.page_num)]
       ELSE run' = [run EXCEPT
              !.papers = @ \o [k \in 1..len |->
                                 jasa_paper(run.base_time, run.page_num, k - 1)],
              !.requested = Append(@, run.page_num),
              !.page_num = @ + 1,
              !.pc = IF run.page_num + 1 < JasaPages THEN "pages" ELSE "sort"]
  /\ UNCHANGED <<db, tx, call, last, resp, clock, io>>

\* papers.sort(key=page_order) (stable); a non-empty list is returned,
\* otherwise the RSS feeds are tried
jasa_sort ==
  /\ run.scraper = "JASA" /\ run.pc = "sort"
  /\ run' = [run EXCEPT !.papers = sort_by_page_order(run.papers),
                        !.pc = IF run.papers # <<>> THEN "returned" ELSE "rss"]
  /\ UNCHANGED <<db, tx, call, last, resp, clock, io>>

\* the page was fetched and has n article containers, or the request
\* raised and [] is returned
jrssb_begin(n, raised) ==
  /\ run.pc = "idle"
  /\ run' = IF raised
             THEN [NoRun EXCEPT !.scraper = "JRSSB", !.pc = "returned"]
             ELSE [NoRun EXCEPT !.scraper = "JRSSB", !.pc = "containers",
                                !.base_time = clock, !.n = n]
  /\ UNCHANGED <<db, tx, call, last, resp, clock, io>>

\* one iteration of `for i, container in enumerate(article_containers)`;
\* page_num counts the containers seen; a container without a title link
\* yields no paper
jrssb_container(yields) ==
  /\ run.scraper = "JRSSB" /\ run.pc = "containers" /\ run.page_num < run.n
  /\ run' = [run EXCEPT
       !.papers = IF yields THEN Append(@, jrssb_paper(run.base_time, run.page_num))
                            ELSE @,
       !.page_num = @ + 1]
  /\ UNCHANGED <<db, tx, call, last, resp, clock, io>>

jrssb_return ==
  /\ run.scraper = "JRSSB" /\ run.pc = "containers" /\ run.page_num = run.n
  /\ run' = [run EXCEPT !.pc = "returned"]
  /\ UNCHANGED <<db, tx, call, last, resp, clock, io>>

InitOrder ==
  /\ db = EmptyStore
  /\ tx = [s \in Sessions |-> EmptyTx]
  /\ call = [s \in Sessions |-> Idle]
  /\ last = [s \in Sessions |-> [op |-> "none"]]
  /\ resp = <<>>
  /\ clock = Now0
  /\ io = <<>>
  /\ run = NoRun

NextOrder ==
  \/ jasa_begin
  \/ \E len \in PageLens : jasa_page(len)
  \/ jasa_sort
  \/ \E n \in 0..MaxContainers, raised \in BOOLEAN : jrssb_begin(n, raised)
  \/ \E yields \in BOOLEAN : jrssb_container(yields)
  \/ jrssb_return

SpecOrder == InitOrder /\ [][NextOrder]_vars

\* C4: in a batch returned by JASA's direct scraping or by JRSSB the
\* scraped_date strictly decreases along the list (adjacent positions
\* suffice, > being transitive), and every record of page p is later than
\* every record of page p + 1, however many records a page yields.
C4_StrictlyDecreasing ==
  run.pc = "returned" =>
    /\ \A i \in 1..(Len(run.papers) - 1) :
         run.papers[i].scraped_date > run.papers[i + 1].scraped_date
    /\ \A i, j \in 1..Len(run.papers) :
         run.papers[j].page_num = run.papers[i].page_num + 1 =>
           run.papers[i].scraped_date > run.papers[j].scraped_date

----------------------------------------------------------------------------
(* SpecScrape: one run of trigger_scrape (POST /scrape) on session 1       *)

\* get_all_scrapers(): the journal_name of each scraper, in list order
get_all_scrapers ==
  << "Annals of Statistics",
     "Journal of Machine Learning Research",
     "Journal of the American Statistical Association",
     "Journal of the Royal Statistical Society Series B",
     "Biometrika" >>

\* f"Added {count} new papers (found {len(papers_data)} total)"
added_message(count, found) ==
  <<"Added ", count, " new papers (found ", found, " total)">>

\* f"Error: {str(e)}"
error_message(e) == <<"Error: ", e>>

\* f"Total: {total_new_papers} new papers added across all journals"
summary_message(total_new_papers) ==
  <<"Total: ", total_new_papers, " new papers added across all journals">>

\* results[key] = message
results_set(results, key, message) == (key :> message) @@ results

NoResults == [key \in {} |-> <<>>]

NoScrape ==
  [ pc |-> "idle", k |-> 1, found |-> 0, j |-> 0, count |-> 0,
    total_new_papers |-> 0, results |-> NoResults,
    invoked |-> <<>>,   \* per scrape_papers() call: journal, raised, found
    saved |-> {},       \* the Paper rows of the saves that returned True
    phase |-> 0 ]       \* 1: a save returned True, 2: then one failed,
                        \* 3: then another returned True

\* what the scrapers may deliver for `journal`: a new paper, and a paper at
\* whose commit the database raises
ScrapeRecords(journal) ==
  [ journal : {journal}, title : {Title1}, doi : {None},
    authors : {<<"A. Smith">>}, publication_date : {NoDate},
    scraped_date : {NoDate}, fault : {"none", "commit"} ]

\* data_service = DataService(db); scrapers = get_all_scrapers(); an
\* exception here is caught by the outer handler ("Scraping failed")
trigger_scrape_begin(raised) ==
  /\ run.pc = "idle" /\ call[1].op = "idle"
  /\ IF raised
       THEN /\ run' = [run EXCEPT !.pc = "failed"]
            /\ tx' = [tx EXCEPT ![1] = rollback(tx[1])]
            /\ resp' = [status_code |-> 200, message |-> "Scraping failed",
                        error |-> "connection refused"]
            /\ UNCHANGED db
       ELSE /\ db' = [commit(db, tx[1]) EXCEPT !.journals = @ \cup journals_data]
            /\ tx' = [tx EXCEPT ![1] = EmptyTx]
            /\ run' = [run EXCEPT !.pc = "scraper"]
            /\ UNCHANGED resp
  /\ UNCHANGED <<call, last, clock, io>>

\* a handler that leaves the loop
after_except_break(k) == Len(get_all_scrapers) + 1

\* the inner `except Exception` falls through to the next iteration
after_except(k) == k + 1

\* the next scraper of the loop: papers_data = scraper.scrape_papers()
\* returns `found` records, or raises e (caught: results[...] = "Error: ...")
trigger_scrape_scraper(raised, e, found) ==
  /\ run.pc = "scraper" /\ run.k <= Len(get_all_scrapers)
  /\ LET journal_name == get_all_scrapers[run.k]
         called == Append(run.invoked,
                     [journal |-> journal_name, raised |-> raised,
                      found |-> IF raised THEN 0 ELSE found])
     IN  run' = IF raised
                  THEN [run EXCEPT
                          !.invoked = called, !.k = after_except(@),
                          !.results = results_set(@, journal_name, error_message(e))]
                  ELSE [run EXCEPT
                          !.invoked = called, !.pc = "papers",
                          !.found = found, !.j = 0, !.count = 0]
  /\ UNCHANGED <<db, tx, call, last, resp, clock, io>>

\* `data_service.save_paper(paper_data)` for the next record of papers_data
trigger_scrape_save(paper_data) ==
  /\ run.pc = "papers" /\ run.j < run.found
  /\ last[1].op # "save_paper"
  /\ paper_data.journal = get_all_scrapers[run.k]
  /\ save_paper_lookup(1, paper_data)

\* a save that added its paper and then returned False
Failed(returned) == returned.added /\ ~returned.ret

\* save_paper returned: `count += 1` if it returned True
trigger_scrape_saved ==
  /\ run.pc = "papers" /\ call[1].op = "idle" /\ last[1].op = "save_paper"
  /\ run' = [run EXCEPT
       !.j = @ + 1,
       !.count = @ + (IF last[1].ret THEN 1 ELSE 0),
       !.saved = IF last[1].ret
                   THEN @ \cup {p \in db.papers : p.id = last[1].paper}
                   ELSE @,
       !.phase = IF last[1].ret /\ @ \in {0, 2} THEN @ + 1
                 ELSE IF Failed(last[1]) /\ @ = 1 THEN 2
                 ELSE @]
  /\ last' = [last EXCEPT ![1] = [op |-> "none"]]
  /\ UNCHANGED <<db, tx, call, resp, clock, io>>

\* after the last record: total_new_papers += count; results[...] = "Added ..."
trigger_scrape_added ==
  /\ run.pc = "papers" /\ run.j = run.found
  /\ call[1].op = "idle" /\ last[1].op # "save_paper"
  /\ run' = [run EXCEPT
       !.pc = "scraper", !.k = @ + 1,
       !.total_new_papers = @ + run.count,
       !.results = results_set(@, get_all_scrapers[run.k],
                               added_message(run.count, run.found))]
  /\ UNCHANGED <<db, tx, call, last, resp, clock, io>>

\* after the loop: results["Summary"], the response, and get_db's db.close()
trigger_scrape_return ==
  /\ run.pc = "scraper" /\ run.k > Len(get_all_scrapers)
  /\ run' = [run EXCEPT
       !.pc = "completed",
       !.results = results_set(@, "Summary", summary_message(run.total_new_papers))]
  /\ resp' = [status_code |-> 200, message |-> "Scraping completed",
              results |-> run'.results]
  /\ tx' = [tx EXCEPT ![1] = rollback(tx[1])]
  /\ UNCHANGED <<db, call, last, clock, io>>

InitScrape ==
  /\ db = [EmptyStore EXCEPT !.journals = journals_data]
  /\ tx = [s \in Sessions |-> EmptyTx]
  /\ call = [s \in Sessions |-> Idle]
  /\ last = [s \in Sessions |-> [op |-> "none"]]
  /\ resp = <<>>
  /\ clock = Now0
  /\ io = <<>>
  /\ run = NoScrape

NextScrape ==
  \/ \E raised \in BOOLEAN : trigger_scrape_begin(raised)
  \/ \E raised \in BOOLEAN, found \in 0..MaxFound :
       trigger_scrape_scraper(raised, "timed out", found)
  \/ \E paper_data \in UNION {ScrapeRecords(get_all_scrapers[k]) :
                                k \in 1..Len(get_all_scrapers)} :
       trigger_scrape_save(paper_data)
  \/ save_paper_insert(1)
  \/ save_paper_author(1)
  \/ save_paper_topics(1)
  \/ save_paper_commit(1)
  \/ trigger_scrape_saved
  \/ trigger_scrape_added
  \/ trigger_scrape_return

SpecScrape == InitScrape /\ [][NextScrape]_vars

\* a returned save whose record the store could take: no fault of the
\* database, and no paper of that title and journal at the time of the call
Insertable(returned) ==
  /\ returned.rec.fault = "none"
  /\ returned.rec.journal \in returned.snap.journals
  /\ existing(returned.snap, returned.rec.title, returned.rec.journal) = {}

\* C6: in a scrape run the rows of every paper whose save returned True
\* stay in the store as they were written, whatever later saves do, and a
\* record the store can take is inserted (save_paper returns True and the
\* paper is stored) also after earlier saves of the run failed.
C6_FailureIsolated ==
  /\ run.saved \subseteq db.papers
  /\ \A p \in run.saved : \E link \in db.paper_authors : link.paper_id = p.id
  /\ (last[1].op = "save_paper" /\ Insertable(last[1]))
       => /\ last[1].ret
          /\ \E p \in db.papers : /\ p.id = last[1].paper
                                   /\ p.title = last[1].rec.title
                                   /\ p.journal_id = last[1].rec.journal

\* a save returned True, a later one failed at its commit, a still later
\* one returned True; both papers are stored
C6_Witness ==
  /\ run.phase = 3
  /\ Cardinality(run.saved) = 2
  /\ run.saved \subseteq db.papers

\* C7: the scrapers are invoked once each in the order of get_all_scrapers,
\* and the results map of a completed run has one entry per journal:
\* "Error: <message>" if its scraper raised, otherwise "Added N new papers
\* (found M total)" with M the records returned and N the papers stored.
C7_EveryScraperOnce ==
  /\ Len(run.invoked) <= Len(get_all_scrapers)
  /\ \A k \in 1..Len(run.invoked) : run.invoked[k].journal = get_all_scrapers[k]
  /\ run.pc = "completed" =>
       /\ Len(run.invoked) = Len(get_all_scrapers)
       /\ DOMAIN resp.results = Range(get_all_scrapers) \cup {"Summary"}
       /\ \A k \in 1..Len(get_all_scrapers) :
            LET journal == get_all_scrapers[k]
                N == Cardinality({p \in db.papers : p.journal_id = journal})
                M == run.invoked[k].found
            IN  /\ resp.results[journal] =
                      IF run.invoked[k].raised
                        THEN <<"Error: ", "timed out">>
                        ELSE <<"Added ", N, " new papers (found ", M, " total)">>
                /\ M = 0 => N = 0

\* a completed run: the first scraper raised, the second returned nothing,
\* the last returned two records of which one was new
C7_Witness ==
  /\ run.pc = "completed"
  /\ run.invoked[1].raised
  /\ ~run.invoked[2].raised /\ run.invoked[2].found = 0
  /\ resp.results["Annals of Statistics"] = <<"Error: ", "timed out">>
  /\ resp.results["Journal of Machine Learning Research"] =
       <<"Added ", 0, " new papers (found ", 0, " total)">>
  /\ resp.results["Biometrika"] = <<"Added ", 1, " new papers (found ", 2, " total)">>

\* C16: a run in which only scrapers failed answers with a success status
\* and the journal's "Error: ..." string in its results; a run that failed
\* before the scrapers (DataService could not be constructed) answers with
\* an error status, not a success one.
C16_HardFailure ==
  /\ run.pc = "completed" =>
       /\ resp.status_code = 200
       /\ \A k \in 1..Len(run.invoked) :
            run.invoked[k].raised =>
              resp.results[run.invoked[k].journal][1] = "Error: "
  /\ run.pc = "failed" => resp.status_code >= 400

----------------------------------------------------------------------------
(* SpecConc: save_paper calls of two sessions, interleaved statement by    *)
(* statement (PostgreSQL, READ COMMITTED: a session sees its own rows and  *)
(* the committed ones)                                                     *)

ConcRecords ==
  [ journal : {"Annals of Statistics"}, title : {Title1, Title2},
    doi : {None}, authors : {<<"A. Smith">>},
    publication_date : {NoDate}, scraped_date : {NoDate}, fault : {"none"} ]

NextConc ==
  \/ \E s \in Sessions, rec \in ConcRecords : Room /\ save_paper_lookup(s, rec)
  \/ \E s \in Sessions : save_paper_insert(s)
  \/ \E s \in Sessions : save_paper_author(s)
  \/ \E s \in Sessions : save_paper_topics(s)
  \/ \E s \in Sessions : save_paper_commit(s)

SpecConc == InitStore /\ [][NextConc]_vars

\* both sessions are back from a save_paper call that returned True
BothSaved ==
  \A s \in Sessions :
    call[s].op = "idle" /\ last[s].op = "save_paper" /\ last[s].ret

\* C8: after two save_paper calls of different sessions that both carry an
\* author name, the store holds exactly one Author row with that name.
C8_OneAuthorPerName ==
  BothSaved =>
    \A name \in Range(authors_of(last[1].rec)) \cap Range(authors_of(last[2].rec)) :
      Cardinality({a \in db.authors : a.name = name}) = 1

\* C9: after save_paper calls of different sessions, no two stored papers
\* have the same title and journal.
C9_OnePaperPerTitleJournal ==
  (\A s \in Sessions : call[s].op = "idle") =>
    \A p, q \in db.papers :
      (p.title = q.title /\ p.journal_id = q.journal_id) => p.id = q.id

----------------------------------------------------------------------------
(* SpecTopics: extract_topics_from_title called on its own, between        *)
(* save_paper calls that fill the topics table                             *)

ExampleTitle ==
  <<"B","a","y","e","s","i","a","n"," ","M","e","t","h","o","d","s"," ","f","o","r"," ","S","p","a","r","s","e"," ","R","e","g","r","e","s","s","i","o","n"," ","w","i","t","h"," ","M","C","M","C">>
TitleLasso == <<"L","A","S","S","O">>

TagTitles == {Title1, Title2, TitleLasso, ExampleTitle}

TagRecords ==
  [ journal : {"Annals of Statistics"}, title : {Title1, Title2}, doi : {None},
    authors : {<<"A. Smith">>}, publication_date : {NoDate},
    scraped_date : {NoDate}, fault : {"none"} ]

\* data_service.extract_topics_from_title(title); io.log keeps each call's
\* argument and result, and the topics stored at the time
extract_topics_call(title) ==
  /\ Len(io.log) < MaxCalls
  /\ io' = [io EXCEPT !.log = Append(@,
              [title |-> title,
               detected_topics |-> extract_topics_from_title(title),
               stored |-> db.topics])]
  /\ UNCHANGED <<db, tx, call, last, resp, clock, run>>

InitTopics ==
  /\ db = [EmptyStore EXCEPT !.journals = journals_data]
  /\ tx = [s \in Sessions |-> EmptyTx]
  /\ call = [s \in Sessions |-> Idle]
  /\ last = [s \in Sessions |-> [op |-> "none"]]
  /\ resp = <<>>
  /\ clock = Now0
  /\ io = [log |-> <<>>]
  /\ run = <<>>

NextTopics ==
  \/ \E title \in TagTitles : extract_topics_call(title)
  \/ \E rec \in TagRecords : Room /\ save_paper_lookup(1, rec)
  \/ save_paper_insert(1)
  \/ save_paper_author(1)
  \/ save_paper_topics(1)
  \/ save_paper_commit(1)

SpecTopics == InitTopics /\ [][NextTopics]_vars

\* C11: every call returns exactly the labels of the table that have a
\* keyword contained in the lower-cased title, whatever was called before
\* and whatever topics are stored; none for a title without keywords; for
\* 'Bayesian Methods for Sparse Regression with MCMC' the result includes
\* 'Bayesian Statistics' and 'High-Dimensional Statistics'.
C11_TopicsOfTitle ==
  \A n \in 1..Len(io.log) :
    LET e == io.log[n]
        matching == {k \in 1..Len(topic_keywords) :
                       \E kw \in Range(topic_keywords[k].keywords) :
                         Contains(lower(e.title), kw)}
    IN  /\ Range(e.detected_topics) = {topic_keywords[k].topic : k \in matching}
        /\ Len(e.detected_topics) = Cardinality(matching)
        /\ e.title = Title1 => e.detected_topics = <<>>
        /\ e.title = TitleLasso => e.detected_topics = <<"High-Dimensional Statistics">>
        /\ e.title = ExampleTitle =>
              {"Bayesian Statistics", "High-Dimensional Statistics"}
                \subseteq Range(e.detected_topics)
        /\ \A m \in 1..Len(io.log) :
              io.log[m].title = e.title =>
                io.log[m].detected_topics = e.detected_topics

\* the example title was tagged twice, before and after topics were stored
C11_Witness ==
  /\ Len(io.log) = 2
  /\ io.log[1].title = ExampleTitle /\ io.log[2].title = ExampleTitle
  /\ io.log[1].stored = {} /\ io.log[2].stored # {}
  /\ io.log[2].detected_topics =
       <<"Machine Learning", "Bayesian Statistics", "High-Dimensional Statistics">>

----------------------------------------------------------------------------
(* SpecFrame: save_paper and sync_papers over records that agree in title  *)
(* and journal and differ in every other field                             *)

Date1 == 1751587200   \* 2025-07-04T00:00:00
Date2 == 1751673600   \* 2025-07-05T00:00:00

FrameFields(dates, more) ==
  [ journal : {"Annals of Statistics"}, title : {Title2}, doi : {None},
    url : {"https://a"}, abstract : {"first"}, section : {"Theory"},
    authors : {<<"A. Smith", "B. Jones">>},
    publication_date : dates, scraped_date : more ]
  \cup
  [ journal : {"Annals of Statistics"}, title : {Title2},
    doi : {"10.1214/24-AOS1"},
    url : {"https://b"}, abstract : {"second"}, section : {"Applications"},
    authors : {<<"B. Jones">>},
    publication_date : dates, scraped_date : more ]

\* save_paper takes datetime objects
SaveFrameRecords ==
  {[fault |-> "none"] @@ rec : rec \in FrameFields({NoDate, Date1, Date2}, {NoDate})}

\* sync_papers takes ISO-8601 strings
SyncFrameRecords ==
  FrameFields({Missing, "2025-07-04T00:00:00", "2025-07-05T00:00:00", "yesterday"},
              {Missing})

NextFrame ==
  \/ \E rec \in SaveFrameRecords : Room /\ save_paper_lookup(1, rec)
  \/ save_paper_insert(1)
  \/ save_paper_author(1)
  \/ save_paper_topics(1)
  \/ save_paper_commit(1)
  \/ Room /\ sync_papers_begin(1)
  \/ \E paper_data \in SyncFrameRecords : sync_papers_record(1, paper_data)
  \/ sync_papers_author(1)
  \/ sync_papers_topics(1)
  \/ sync_papers_commit(1)

SpecFrame == InitStore /\ [][NextFrame]_vars

\* the fields of a Paper row other than publication_date
FrameOf(p) == [p EXCEPT !.publication_date = NoDate]

\* the author names (with their order) and the topics attached to a paper
AttachedTo(store, paper_id) ==
  [ authors |-> {<<r.author_order,
                   (CHOOSE a \in store.authors : a.id = r.author_id).name>> :
                   r \in {l \in store.paper_authors : l.paper_id = paper_id}},
    topics  |-> {r.topic : r \in {l \in store.paper_topics : l.paper_id = paper_id}} ]

\* q is p with nothing but the publication date changed, in stores a and b
SameButDate(a, p, b, q) ==
  /\ q.id = p.id
  /\ FrameOf(q) = FrameOf(p)
  /\ AttachedTo(b, q.id) = AttachedTo(a, p.id)

\* the step hands session s a record whose (title, journal) it finds stored:
\* save_paper's duplicate check, or one record of a sync_papers batch
MatchedBy(s, rec) ==
  LET v == View(db, tx[s])
  IN  IF call[s].op = "idle" /\ call'[s].op = "idle"
         /\ last'[s].op = "save_paper" /\ rec = last'[s].rec
        THEN existing(v, rec.title, journal_of(v, rec.journal))
      ELSE IF call[s].op = "sync_papers" /\ call[s].pc = "record"
              /\ call'[s].op = "sync_papers" /\ call'[s].k = call[s].k + 1
              /\ rec = call'[s].rec /\ ~tx[s].failed
        THEN existing(v, get_title(rec.title), journal_of(v, rec.journal))
      ELSE {}

\* C12: a record whose (title, journal) is stored leaves the stored paper's
\* title, url, doi, abstract, section, scraped_date, journal, authors and
\* topics as they are and adds no row; its publication_date changes only
\* to an incoming date that is non-null and differs from the stored one
\* (never in save_paper); and no step changes those fields of a committed
\* paper.
C12_OnlyPublicationDate ==
  [][ /\ \A s \in Sessions :
          \A rec \in SaveFrameRecords \cup SyncFrameRecords :
            \A p \in MatchedBy(s, rec) :
              LET v == View(db, tx[s])
                  w == View(db', tx'[s])
              IN  /\ {q.id : q \in w.papers} = {q.id : q \in v.papers}
                  /\ w.authors = v.authors /\ w.topics = v.topics
                  /\ \E q \in w.papers :
                       /\ SameButDate(v, p, w, q)
                       /\ q.publication_date # p.publication_date =>
                            /\ call[s].op = "sync_papers"
                            /\ Truthy(rec.publication_date)
                            /\ rec.publication_date \in IsoDates
                            /\ q.publication_date = fromisoformat(rec.publication_date)
      /\ \A p \in db.papers : \E q \in db'.papers : SameButDate(db, p, db', q)
    ]_vars

\* a stored paper matched by a sync_papers record that differs in every
\* other field; the call changed the publication date and nothing else
C12_Witness ==
  /\ last[1].op = "sync_papers" /\ last[1].ret.status = "success"
  /\ last[1].ret.updated_papers = 1 /\ last[1].ret.synced_papers = 0
  /\ \E p \in last[1].snap.papers, q \in db.papers :
       /\ SameButDate(last[1].snap, p, db, q)
       /\ p.publication_date = Date1 /\ q.publication_date = Date2
       /\ p.url = "https://a" /\ last[1].rec.url = "https://b"

----------------------------------------------------------------------------
(* SpecCounts: sync_papers over batches with new and stored papers, with   *)
(* publication dates, and with a null author list                          *)

SyncCountRecords ==
  [ journal : {"Annals of Statistics"}, title : {Title1, Title2},
    doi : {None}, authors : {<<"A. Smith">>, NoneList},
    publication_date : {Missing, "2025-07-04T00:00:00", "2025-07-05T00:00:00"},
    scraped_date : {Missing} ]

NextCounts ==
  \/ Room /\ sync_papers_begin(1)
  \/ \E paper_data \in SyncCountRecords : sync_papers_record(1, paper_data)
  \/ sync_papers_author(1)
  \/ sync_papers_topics(1)
  \/ sync_papers_commit(1)

SpecCounts == InitStore /\ [][NextCounts]_vars

\* C13: a sync_papers call that returns success reports as synced_papers
\* the number of paper rows it added, as updated_papers the number of
\* papers stored before the call whose publication_date it changed, and as
\* total_processed the number of records of the batch.
C13_CountsMatchStore ==
  (last[1].op = "sync_papers" /\ last[1].ret.status = "success") =>
    LET before == last[1].snap.papers
        added == {q \in db.papers : \A p \in before : p.id # q.id}
        changed == {p \in before : \E q \in db.papers :
                      q.id = p.id /\ q.publication_date # p.publication_date}
    IN  /\ last[1].ret.synced_papers = Cardinality(added)
        /\ last[1].ret.updated_papers = Cardinality(changed)
        /\ last[1].ret.total_processed \in 0..MaxBatch

----------------------------------------------------------------------------
(* SpecBrowser: scrape_papers of the three Playwright scrapers: the        *)
(* `async with async_playwright()` block, the browser it launches, and     *)
(* every await in it that may raise                                        *)

PlaywrightScrapers == {"JASA", "JRSSB", "Biometrika"}

NoBrowserRun ==
  [ scraper |-> "none", pc |-> "idle", playwright |-> FALSE, browser |-> "none",
    page_num |-> 0, found |-> 0, path |-> "normal" ]

\* range(3) in PlaywrightJASAScraper; the other two load one page
PagesOf(scraper) == IF scraper = "JASA" THEN JasaPages ELSE 1

\* an exit of the block that leaves a launched browser running
aexit_leaves_browser(r) == [r EXCEPT !.playwright = FALSE]

\* leaving `async with async_playwright() as p` on any path: Playwright is
\* stopped, which ends its driver and with it every browser still open
aexit(r) ==
  [r EXCEPT !.playwright = FALSE,
            !.browser = IF @ = "open" THEN "closed" ELSE @]

\* an exception leaves the block and is caught by `except Exception`;
\* scrape_papers returns the papers it has
pw_raise(path) ==
  run' = [aexit(run) EXCEPT !.pc = "returned", !.path = path]

\* `await browser.close(); return papers` inside the block
pw_close_return(path) ==
  run' = [aexit([run EXCEPT !.browser = "closed"]) EXCEPT
            !.pc = "returned", !.path = path]

\* async with async_playwright() as p
pw_enter(scraper, raised) ==
  /\ run.pc = "idle"
  /\ run' = IF raised
             THEN [NoBrowserRun EXCEPT !.scraper = scraper, !.pc = "returned",
                                       !.path = "exception"]
             ELSE [NoBrowserRun EXCEPT !.scraper = scraper, !.pc = "launch",
                                       !.playwright = TRUE]
  /\ UNCHANGED <<db, tx, call, last, resp, clock, io>>

\* browser = await p.chromium.launch(...)
pw_launch(raised) ==
  /\ run.pc = "launch"
  /\ IF raised THEN pw_raise("exception")
               ELSE run' = [run EXCEPT !.pc = "setup", !.browser = "open"]
  /\ UNCHANGED <<db, tx, call, last, resp, clock, io>>

\* browser.new_context, context.new_page, page.add_init_script
pw_setup(raised) ==
  /\ run.pc = "setup"
  /\ IF raised THEN pw_raise("exception")
               ELSE run' = [run EXCEPT !.pc = "goto"]
  /\ UNCHANGED <<db, tx, call, last, resp, clock, io>>

\* await page.goto(url, timeout=60000); on an error JASA breaks out of the
\* page loop, JRSSB and Biometrika close the browser and return
pw_goto(raised) ==
  /\ run.pc = "goto"
  /\ IF ~raised THEN run' = [run EXCEPT !.pc = "selector"]
     ELSE IF run.scraper = "JASA"
       THEN run' = [run EXCEPT !.pc = "close", !.path = "page-load error"]
       ELSE pw_close_return("page-load error")
  /\ UNCHANGED <<db, tx, call, last, resp, clock, io>>

\* await page.wait_for_selector(..., timeout=20000); on a timeout JASA
\* reads the page to report on it, the others try their second selector
pw_selector(raised) ==
  /\ run.pc = "selector"
  /\ run' = IF ~raised THEN [run EXCEPT !.pc = "content"]
             ELSE IF run.scraper = "JASA" THEN [run EXCEPT !.pc = "report"]
             ELSE [run EXCEPT !.pc = "selector2"]
  /\ UNCHANGED <<db, tx, call, last, resp, clock, io>>

\* JRSSB, Biometrika: the alternative selector
pw_selector2(raised) ==
  /\ run.pc = "selector2"
  /\ run' = IF ~raised THEN [run EXCEPT !.pc = "content"]
             ELSE [run EXCEPT !.pc = "report"]
  /\ UNCHANGED <<db, tx, call, last, resp, clock, io>>

\* in the handler of the selector timeout: content = await page.content(),
\* then JASA breaks and the others close the browser and return; an
\* exception of page.content() leaves the block
pw_report(raised) ==
  /\ run.pc = "report"
  /\ IF raised THEN pw_raise("exception")
     ELSE IF run.scraper = "JASA"
       THEN run' = [run EXCEPT !.pc = "close", !.path = "selector timeout"]
       ELSE pw_close_return("selector timeout")
  /\ UNCHANGED <<db, tx, call, last, resp, clock, io>>

\* content = await page.content(); BeautifulSoup; the loop over the
\* article containers, which yields `found` more papers; then the next
\* page (JASA) or the end of the block's body
pw_content(raised, found) ==
  /\ run.pc = "content"
  /\ IF raised THEN pw_raise("exception")
     ELSE run' = [run EXCEPT
            !.found = @ + found,
            !.page_num = @ + 1,
            !.pc = IF run.page_num + 1 < PagesOf(run.scraper) THEN "goto"
                   ELSE "close"]
  /\ UNCHANGED <<db, tx, call, last, resp, clock, io>>

\* await browser.close() as the last statement of the block
pw_close(raised) ==
  /\ run.pc = "close"
  /\ IF raised THEN pw_raise("exception")
               ELSE pw_close_return(run.path)
  /\ UNCHANGED <<db, tx, call, last, resp, clock, io>>

InitBrowser ==
  /\ db = EmptyStore
  /\ tx = [s \in Sessions |-> EmptyTx]
  /\ call = [s \in Sessions |-> Idle]
  /\ last = [s \in Sessions |-> [op |-> "none"]]
  /\ resp = <<>>
  /\ clock = Now0
  /\ io = <<>>
  /\ run = NoBrowserRun

NextBrowser ==
  \/ \E scraper \in PlaywrightScrapers, raised \in BOOLEAN : pw_enter(scraper, raised)
  \/ \E raised \in BOOLEAN : pw_launch(raised)
  \/ \E raised \in BOOLEAN : pw_setup(raised)
  \/ \E raised \in BOOLEAN : pw_goto(raised)
  \/ \E raised \in BOOLEAN : pw_selector(raised)
  \/ \E raised \in BOOLEAN : pw_selector2(raised)
  \/ \E raised \in BOOLEAN : pw_report(raised)
  \/ \E raised \in BOOLEAN, found \in 0..MaxContainers : pw_content(raised, found)
  \/ \E raised \in BOOLEAN : pw_close(raised)

SpecBrowser == InitBrowser /\ [][NextBrowser]_vars

\* C14: when scrape_papers of a Playwright scraper has returned, no browser
\* it launched is still running and Playwright is stopped, whichever way
\* it left: normal completion, page-load error, selector timeout, or an
\* exception of an awaited call.
C14_BrowserTornDown ==
  run.pc = "returned" => (run.browser # "open" /\ ~run.playwright)

\* JASA returned after page.content() raised on its second page, with the
\* browser launched
C14_Witness ==
  /\ run.pc = "returned" /\ run.scraper = "JASA" /\ run.path = "exception"
  /\ run.page_num = 1 /\ run.browser = "closed"

----------------------------------------------------------------------------
(* SpecRequests: the HTTP requests of one trigger_scrape run, scraper by   *)
(* scraper, against sources that answer a request or never do              *)

\* requests' `timeout=None`: wait for the response without limit
NoTimeout == 0

\* the timeout (seconds) of each session.get of a scraper's scrape_papers,
\* in the order they are issued: AOS the listing; JMLR the listing, then
\* [abs] and [bib] of a paper; JASA pages 0..2, then the four RSS feeds;
\* JRSSB and Biometrika the listing
scraper_timeouts ==
  << <<NoTimeout>>,
     <<30, 10, 10>>,
     <<10, 10, 10, 10, 10, 10, 10>>,
     <<30>>,
     <<30>> >>

\* where a scraper goes on after its i-th request timed out: JMLR's
\* _fetch_jmlr_abstract/_fetch_jmlr_bibtex return None and parsing goes on,
\* JASA's scrape_page returns [] and the RSS feeds are tried one by one,
\* the others return from scrape_papers
after_timeout(k, i) ==
  CASE k = 2 /\ i > 1 -> i + 1
    [] k = 3 /\ i <= JasaPages -> JasaPages + 1
    [] k = 3 /\ i > JasaPages -> i + 1
    [] OTHER -> Len(scraper_timeouts[k]) + 1

NoRequests ==
  [ pc |-> "idle", k |-> 1, i |-> 1, timeout |-> NoTimeout, answers |-> TRUE,
    waited |-> 0 ]

\* trigger_scrape: the loop over get_all_scrapers() starts
requests_begin ==
  /\ run.pc = "idle"
  /\ run' = [run EXCEPT !.pc = "scraper"]
  /\ UNCHANGED <<db, tx, call, last, resp, clock, io>>

\* session.get(url[, timeout=...]): the request is sent; the source will
\* answer it or never answer it
session_get(answers) ==
  /\ run.pc = "scraper" /\ run.k <= Len(get_all_scrapers)
  /\ run.i <= Len(scraper_timeouts[run.k])
  /\ run' = [run EXCEPT !.pc = "waiting", !.answers = answers,
                        !.timeout = scraper_timeouts[run.k][run.i]]
  /\ UNCHANGED <<db, tx, call, last, resp, clock, io>>

\* the response arrives
session_get_returns ==
  /\ run.pc = "waiting" /\ run.answers
  /\ run' = [run EXCEPT !.pc = "scraper", !.i = @ + 1]
  /\ UNCHANGED <<db, tx, call, last, resp, clock, io>>

\* no response within the timeout: requests raises Timeout, which the
\* scraper catches
session_get_times_out ==
  /\ run.pc = "waiting" /\ ~run.answers /\ run.timeout # NoTimeout
  /\ run' = [run EXCEPT !.pc = "scraper", !.i = after_timeout(run.k, run.i),
                        !.waited = @ + run.timeout]
  /\ UNCHANGED <<db, tx, call, last, resp, clock, io>>

\* scrape_papers returns; trigger_scrape saves the records and goes on
\* with the next scraper
scrape_papers_returns ==
  /\ run.pc = "scraper" /\ run.k <= Len(get_all_scrapers)
  /\ run.i > Len(scraper_timeouts[run.k])
  /\ run' = [run EXCEPT !.k = @ + 1, !.i = 1]
  /\ UNCHANGED <<db, tx, call, last, resp, clock, io>>

\* after the last scraper: the response
requests_end ==
  /\ run.pc = "scraper" /\ run.k > Len(get_all_scrapers)
  /\ run' = [run EXCEPT !.pc = "completed"]
  /\ UNCHANGED <<db, tx, call, last, resp, clock, io>>

InitRequests ==
  /\ db = EmptyStore
  /\ tx = [s \in Sessions |-> EmptyTx]
  /\ call = [s \in Sessions |-> Idle]
  /\ last = [s \in Sessions |-> [op |-> "none"]]
  /\ resp = <<>>
  /\ clock = Now0
  /\ io = <<>>
  /\ run = NoRequests

NextRequests ==
  \/ requests_begin
  \/ \E answers \in BOOLEAN : session_get(answers)
  \/ session_get_returns
  \/ session_get_times_out
  \/ scrape_papers_returns
  \/ requests_end

SpecRequests == InitRequests /\ [][NextRequests]_vars

\* C15: every request of a run has a bounded timeout, so no request ever
\* waits without limit for a source that never answers (a state from which
\* the run cannot go on to the scrapers after it).
C15_EveryRequestBounded ==
  run.pc = "waiting" => (run.timeout # NoTimeout \/ run.answers)

----------------------------------------------------------------------------
(* SpecByline: sync_papers over new papers with two or three authors, and  *)
(* GET /api/papers reading them back                                       *)

\* the byline each title of the batch comes with
BylineOf(title) ==
  IF title = Title1 THEN <<"B. Jones", "A. Smith">>
                    ELSE <<"A. Smith", "others", "B. Jones">>

SyncBylineRecords ==
  { [ journal |-> "Annals of Statistics", title |-> title, doi |-> None,
      authors |-> BylineOf(title), publication_date |-> Missing,
      scraped_date |-> Missing ] : title \in {Title1, Title2} }

NextByline ==
  \/ Room /\ sync_papers_begin(1)
  \/ \E paper_data \in SyncBylineRecords : sync_papers_record(1, paper_data)
  \/ sync_papers_author(1)
  \/ sync_papers_topics(1)
  \/ sync_papers_commit(1)
  \/ api_papers

SpecByline == InitStore /\ [][NextByline]_vars

\* C17: every paper that sync_papers inserted with two or more authors is
\* listed by /api/papers with its authors in the order of the byline it was
\* submitted with, "others" moved to the end.
C17_BylineOrder ==
  \A k \in 1..Len(resp) :
    Len(BylineOf(resp[k].title)) >= 2 =>
      resp[k].authors = format_authors(BylineOf(resp[k].title))

----------------------------------------------------------------------------
(* SpecJmlr: JMLRScraper.scrape_papers over a listing of up to MaxListing  *)
(* entries, with the time the [abs] and [bib] requests of each entry take  *)

\* the dt/dd pairs of the "Latest papers" section
MaxListing == 3
\* whole seconds that pass while one entry is parsed and its links fetched
MaxElapsed == 2

NoJmlrRun ==
  [ pc |-> "idle", n |-> 0, i |-> 0, paper_order |-> 0, papers |-> <<>> ]

\* ordered_time = base_time - timedelta(seconds=paper_order)
ordered_time(base_time, paper_order) == base_time - paper_order

\* session.get(self.base_url, timeout=30) and the search for the "Latest
\* papers" heading: the section has n entries, or the request raised or no
\* heading was found and [] is returned
jmlr_begin(n, found) ==
  /\ run.pc = "idle"
  /\ run' = IF found THEN [NoJmlrRun EXCEPT !.pc = "entries", !.n = n]
                     ELSE [NoJmlrRun EXCEPT !.pc = "returned"]
  /\ UNCHANGED <<db, tx, call, last, resp, clock, io>>

\* _parse_jmlr_paper(dt, dd, paper_order) for the next entry: the title and
\* links are read, _fetch_jmlr_abstract and _fetch_jmlr_bibtex take
\* `elapsed` seconds, then base_time = datetime.utcnow(); an exception
\* yields None and the entry is skipped
_parse_jmlr_paper(elapsed, raised) ==
  /\ run.pc = "entries" /\ run.i < run.n
  /\ clock' = clock + elapsed
  /\ run' = IF raised
       THEN [run EXCEPT !.i = @ + 1]
       ELSE [run EXCEPT
               !.i = @ + 1,
               !.papers = Append(@, [ entry |-> run.i,
                                      publication_date |-> NoDate,
                                      scraped_date |-> ordered_time(clock', run.paper_order) ]),
               !.paper_order = @ + 1]
  /\ UNCHANGED <<db, tx, call, last, resp, io>>

jmlr_return ==
  /\ run.pc = "entries" /\ run.i = run.n
  /\ run' = [run EXCEPT !.pc = "returned"]
  /\ UNCHANGED <<db, tx, call, last, resp, clock, io>>

InitJmlr ==
  /\ db = EmptyStore
  /\ tx = [s \in Sessions |-> EmptyTx]
  /\ call = [s \in Sessions |-> Idle]
  /\ last = [s \in Sessions |-> [op |-> "none"]]
  /\ resp = <<>>
  /\ clock = Now0
  /\ io = <<>>
  /\ run = NoJmlrRun

NextJmlr ==
  \/ \E n \in 0..MaxListing, found \in BOOLEAN : jmlr_begin(n, found)
  \/ \E elapsed \in 0..MaxElapsed, raised \in BOOLEAN : _parse_jmlr_paper(elapsed, raised)
  \/ jmlr_return

SpecJmlr == InitJmlr /\ [][NextJmlr]_vars

\* C18: within one JMLR batch there is one instant from which every record's
\* scraped_date is its listing position in seconds back, so the values
\* strictly decrease in listing order however long the records took.
C18_OneAnchor ==
  /\ \E base_time \in Now0..clock :
       \A k \in 1..Len(run.papers) :
         run.papers[k].scraped_date = base_time - (k - 1)
  /\ \A k \in 1..(Len(run.papers) - 1) :
       run.papers[k].scraped_date > run.papers[k + 1].scraped_date

----------------------------------------------------------------------------
(* SpecAos: AOSScraper.scrape_papers over a table of up to MaxListing rows *)

NoAosRun ==
  [ pc |-> "idle", n |-> 0, i |-> 0, papers |-> <<>> ]

\* session.get(self.base_url) and soup.find('table'): the table has n rows;
\* or the request raised or there is no table, and [] is returned
aos_begin(n, found) ==
  /\ run.pc = "idle"
  /\ run' = IF found THEN [NoAosRun EXCEPT !.pc = "rows", !.n = n]
                     ELSE [NoAosRun EXCEPT !.pc = "returned"]
  /\ UNCHANGED <<db, tx, call, last, resp, clock, io>>

\* one iteration of `for i, row in enumerate(all_rows)`, `elapsed` seconds
\* after the one before: a row with a title yields a record stamped
\* datetime.utcnow(), with its row index as order_index
aos_row(elapsed, titled) ==
  /\ run.pc = "rows" /\ run.i < run.n
  /\ clock' = clock + elapsed
  /\ run' = [run EXCEPT
       !.i = @ + 1,
       !.papers = IF titled
                    THEN Append(@, [ order_index |-> run.i,
                                     publication_date |-> NoDate,
                                     scraped_date |-> clock' ])
                    ELSE @]
  /\ UNCHANGED <<db, tx, call, last, resp, io>>

aos_return ==
  /\ run.pc = "rows" /\ run.i = run.n
  /\ run' = [run EXCEPT !.pc = "returned"]
  /\ UNCHANGED <<db, tx, call, last, resp, clock, io>>

InitAos ==
  /\ db = EmptyStore
  /\ tx = [s \in Sessions |-> EmptyTx]
  /\ call = [s \in Sessions |-> Idle]
  /\ last = [s \in Sessions |-> [op |-> "none"]]
  /\ resp = <<>>
  /\ clock = Now0
  /\ io = <<>>
  /\ run = NoAosRun

NextAos ==
  \/ \E n \in 0..MaxListing, found \in BOOLEAN : aos_begin(n, found)
  \/ \E elapsed \in 0..MaxElapsed, titled \in BOOLEAN : aos_row(elapsed, titled)
  \/ aos_return

SpecAos == InitAos /\ [][NextAos]_vars

\* C19: within one AOS batch, whose records carry no publication date, a
\* record from a later table row has a strictly smaller scraped_date, so
\* the batch sorted by effective date, latest first, is in table order.
C19_DecreasingWithRow ==
  \A k, l \in 1..Len(run.papers) :
    run.papers[k].order_index < run.papers[l].order_index =>
      EffectiveDate(run.papers[k]) > EffectiveDate(run.papers[l])

----------------------------------------------------------------------------
(* SpecListing: papers of one JASA page saved with real publication dates, *)
(* and the two date-ordered listings, GET /papers and GET /api/papers      *)

DaySeconds == 86400

\* JASAScraper.scrape_page, a record with a publication date:
\* scraped_date = base_pub_date + timedelta(seconds=86400 - order_offset)
scrape_page_date(base_pub_date, page_num, i) ==
  base_pub_date + (DaySeconds - page_order(page_num, i))

\* the i-th record (from 0) of page 0, published on publication_date
scrape_page_record(title, i, publication_date) ==
  [ journal |-> "Journal of the American Statistical Association",
    title |-> title, doi |-> None, authors |-> <<"A. Smith">>,
    publication_date |-> publication_date,
    scraped_date |-> scrape_page_date(publication_date, 0, i),
    fault |-> "none" ]

ListingRecords ==
  { scrape_page_record(Title1, 0, d) : d \in {Date1, Date2} } \cup
  { scrape_page_record(Title2, 1, d) : d \in {Date1, Date2} }

\* GET /papers without filters: sort=date_asc orders by the effective date
\* ascending, and every value of sort other than date_asc, title_asc and
\* title_desc by the effective date descending
papers(sort) ==
  /\ \A s \in Sessions : call[s].op = "idle"
  /\ db.papers # {}
  /\ \E listed \in Orderings(db.papers, [p \in db.papers |-> EffectiveDate(p)],
                             sort # "date_asc") :
       resp' = [k \in 1..Len(listed) |->
                  [ id |-> listed[k].id,
                    title |-> listed[k].title,
                    journal |-> listed[k].journal_id,
                    publication_date |-> listed[k].publication_date,
                    scraped_date |-> listed[k].scraped_date ]]
  /\ UNCHANGED <<db, tx, call, last, clock, io, run>>

NextListing ==
  \/ \E rec \in ListingRecords : Room /\ save_paper_lookup(1, rec)
  \/ save_paper_insert(1)
  \/ save_paper_author(1)
  \/ save_paper_topics(1)
  \/ save_paper_commit(1)
  \/ \E sort \in {"date_desc", "newest"} : papers(sort)
  \/ api_papers

SpecListing == InitStore /\ [][NextListing]_vars

\* C20: in a date-descending listing, of two papers with the same real
\* publication date the one with the later scraped_date (the one listed
\* earlier at the source) comes first.
C20_TiesByScrapedDate ==
  \A k, l \in 1..Len(resp) :
    ( /\ k < l
      /\ resp[k].publication_date # NoDate
      /\ resp[k].publication_date = resp[l].publication_date )
    => resp[k].scraped_date >= resp[l].scraped_date

----------------------------------------------------------------------------
(* Properties of sync_papers over SpecCounts: records whose author list is *)
(* null raise after the paper row was flushed                              *)

\* the topics attached to a stored paper
Paper_topics(store, paper_id) ==
  {r.topic : r \in {x \in store.paper_topics : x.paper_id = paper_id}}

\* C21: sync_papers persists no half-written paper: a paper it stored has
\* the topics of its title attached (they are attached after the authors,
\* so a record that raised at its authors has none).
C21_NoHalfWritten ==
  \A p \in db.papers :
    Paper_topics(db, p.id) = Range(extract_topics_from_title(p.title))

----------------------------------------------------------------------------
(* SpecConflict: sync_papers over batches in which two records of          *)
(* different titles carry the same doi (Paper.doi is unique)               *)

SyncConflictRecords ==
  [ journal : {"Annals of Statistics"}, title : {Title1, Title2},
    doi : {None, "10.1214/24-AOS1"}, authors : {<<"A. Smith">>},
    publication_date : {Missing}, scraped_date : {Missing} ]

NextConflict ==
  \/ Room /\ sync_papers_begin(1)
  \/ \E paper_data \in SyncConflictRecords : sync_papers_record(1, paper_data)
  \/ sync_papers_author(1)
  \/ sync_papers_topics(1)
  \/ sync_papers_commit(1)

SpecConflict == InitStore /\ [][NextConflict]_vars

\* C22: a record that violates the doi constraint is skipped and the valid
\* new records of its batch are stored: a call whose last record is valid
\* (no doi, a title not stored before the call) returns success and has that
\* title stored, whatever came before it in the batch.
C22_ConflictSkipped ==
  ( /\ last[1].op = "sync_papers"
    /\ DOMAIN last[1].rec # {}
    /\ last[1].rec.doi = None
    /\ \A p \in last[1].snap.papers : p.title # last[1].rec.title )
  => /\ last[1].ret.status = "success"
     /\ \E p \in db.papers : p.title = last[1].rec.title

----------------------------------------------------------------------------
(* SpecTitles: save_paper and sync_papers over records whose title is      *)
(* present, empty, null or absent                                          *)

EmptyTitle == <<>>

RecordTitles == {Title1, EmptyTitle, NoneTitle, MissingTitle}

SaveTitleRecords ==
  [ journal : {"Annals of Statistics"}, title : RecordTitles, doi : {None},
    authors : {<<"A. Smith">>}, publication_date : {NoDate},
    scraped_date : {NoDate}, fault : {"none"} ]

SyncTitleRecords ==
  [ journal : {"Annals of Statistics"}, title : RecordTitles, doi : {None},
    authors : {<<"A. Smith">>}, publication_date : {Missing},
    scraped_date : {Missing} ]

NextTitles ==
  \/ \E rec \in SaveTitleRecords : Room /\ save_paper_lookup(1, rec)
  \/ save_paper_insert(1)
  \/ save_paper_author(1)
  \/ save_paper_topics(1)
  \/ save_paper_commit(1)
  \/ Room /\ sync_papers_begin(1)
  \/ \E paper_data \in SyncTitleRecords : sync_papers_record(1, paper_data)
  \/ sync_papers_author(1)
  \/ sync_papers_topics(1)
  \/ sync_papers_commit(1)

SpecTitles == InitStore /\ [][NextTitles]_vars

\* C23: no stored paper has a null or an empty title.
C23_TitlePresent ==
  \A p \in db.papers : p.title # NoneTitle /\ p.title # EmptyTitle

----------------------------------------------------------------------------
(* SpecJasa: JASAScraper.scrape_papers with the outcome of every request:  *)
(* the listing pages of the direct strategy, then the feed candidates of   *)
(* try_rss_feed                                                            *)

\* len(rss_urls) in try_rss_feed
RssUrls == 4

\* JASAScraper.scrape_page: the number of records it returns. A request
\* error and a non-success status (raise_for_status) are caught inside and
\* give [].
scrape_page(outcome, n) == IF outcome = "ok" THEN n ELSE 0

\* a record built from a feed candidate: 'source' is 'RSS' for an item of a
\* feed and 'RSS_HTML' for a link found in a payload that is not XML
rss_paper(feed, source) ==
  [page_num |-> 0, page_order |-> 0, scraped_date |-> clock,
   feed |-> feed, source |-> source]

\* one iteration of `for rss_url in rss_urls`. kind is what the candidate
\* answers: "error" (the request raises), "status" (not 200), "feed" (XML
\* with n usable items), "malformed" (ET.ParseError; the payload is then
\* read as HTML and has n article links) or "raises" (XML whose item after
\* the n-th raises, e.g. a <link/> without text)
try_rss_feed(kind, n) ==
  /\ run.scraper = "JASA" /\ run.pc = "rss" /\ Len(run.feeds) < RssUrls
  /\ LET feed == Len(run.feeds) + 1
         found == IF kind \in {"feed", "raises"}
                    THEN [k \in 1..n |-> rss_paper(feed, "RSS")]
                  ELSE IF kind = "malformed"
                    THEN [k \in 1..n |-> rss_paper(feed, "RSS_HTML")]
                  ELSE <<>>
         collected == run.papers \o found
     IN  run' = [run EXCEPT
           !.feeds = Append(@, feed),
           !.strategies = IF run.feeds = <<>> THEN Append(@, "rss") ELSE @,
           !.papers = collected,
           !.pc = IF kind \in {"feed", "malformed"} /\ collected # <<>>
                    THEN "returned"
                  ELSE IF feed = RssUrls THEN "returned"
                  ELSE "rss"]
  /\ UNCHANGED <<db, tx, call, last, resp, clock, io>>

FeedAnswers == {"error", "status", "feed", "malformed", "raises"}

NextJasa ==
  \/ jasa_begin
  \/ \E outcome \in {"ok", "status", "error"}, n \in 0..MaxPageLen :
       jasa_page(scrape_page(outcome, n))
  \/ jasa_sort
  \/ \E kind \in FeedAnswers, n \in 0..MaxFound : try_rss_feed(kind, n)

SpecJasa == InitOrder /\ [][NextJasa]_vars

\* C24: the listing pages are requested in the order 0, 1, 2, at most three
\* of them; a page that yielded no record (empty, or failed) is the last
\* one requested; the records of the pages before it stay in the result.
C24_PagesUntilEmpty ==
  /\ Len(run.requested) <= JasaPages
  /\ \A k \in 1..Len(run.requested) : run.requested[k] = k - 1
  /\ \A k \in 1..(Len(run.requested) - 1) :
       \E i \in 1..Len(run.papers) : run.papers[i].page_num = run.requested[k]
  /\ run.pc = "pages" =>
       \A k \in 1..Len(run.requested) :
         \E i \in 1..Len(run.papers) : run.papers[i].page_num = run.requested[k]

\* pages 0 and 1 gave records, page 2 gave none, and the records of pages 0
\* and 1 were returned
C24_Witness ==
  /\ run.pc = "returned"
  /\ run.requested = <<0, 1, 2>>
  /\ run.strategies = <<"direct">>
  /\ {run.papers[i].page_num : i \in 1..Len(run.papers)} = {0, 1}

\* C25: try_rss_feed asks for the candidates in list order; the records it
\* returns are the items of one candidate, a valid feed, which is the last
\* one asked for; a payload that is not parseable as a feed contributes no
\* record.
C25_FirstValidFeed ==
  run.feeds # <<>> =>
    /\ \A k \in 1..Len(run.feeds) : run.feeds[k] = k
    /\ \A i \in 1..Len(run.papers) :
         /\ run.papers[i].source = "RSS"
         /\ run.papers[i].feed = run.feeds[Len(run.feeds)]

\* C26: the strategies run in the order direct scraping, RSS feed, metadata
\* API, each only after the ones before it gave no record, and an empty
\* result is returned only after all three were tried.
C26_StrategyOrder ==
  /\ \E n \in 0..3 : run.strategies = SubSeq(<<"direct", "rss", "api">>, 1, n)
  /\ (run.pc = "returned" /\ run.strategies = <<"direct">>) => run.papers # <<>>
  /\ (run.pc = "returned" /\ run.papers = <<>>) =>
       run.strategies = <<"direct", "rss", "api">>

----------------------------------------------------------------------------
(* SpecWorking: scrape_papers of WorkingJASAScraper, WorkingJRSSBScraper   *)
(* and WorkingBiometrikaScraper; records are counted by where they come    *)
(* from (live: a feed or CrossRef; fallback: get_fallback_papers)          *)

WorkingScrapers == {"JASA", "JRSSB", "Biometrika"}

\* `if len(papers) < 10` before CrossRef, `if len(papers) < 5` before the
\* fallback papers
CrossrefBelow == 10
FallbackBelow == 5

\* len(self.rss_urls)
working_rss_urls(scraper) == IF scraper = "JASA" THEN 3 ELSE 2
\* len(self.get_fallback_papers())
working_fallback_papers(scraper) == IF scraper = "Biometrika" THEN 1 ELSE 3
\* return papers[:50], papers[:30], papers[:25]
working_limit(scraper) ==
  IF scraper = "JASA" THEN 50 ELSE IF scraper = "JRSSB" THEN 30 ELSE 25

\* the numbers of records a live source yields in the model
LiveCounts == {0, 1, FallbackBelow - 1, FallbackBelow, CrossrefBelow}

NoWorkingRun ==
  [ scraper |-> "none", pc |-> "idle", feeds |-> 0, live |-> 0,
    crossref |-> FALSE, result |-> [live |-> 0, fallback |-> 0] ]

Min(a, b) == IF a < b THEN a ELSE b

working_begin(scraper) ==
  /\ run.pc = "idle"
  /\ run' = [NoWorkingRun EXCEPT !.scraper = scraper, !.pc = "rss"]
  /\ UNCHANGED <<db, tx, call, last, resp, clock, io>>

\* one iteration of `for rss_url in self.rss_urls`: scrape_rss_feed raised,
\* or returned n records; a non-empty list ends the loop
working_rss(raised, n) ==
  /\ run.pc = "rss" /\ run.feeds < working_rss_urls(run.scraper)
  /\ LET rss_papers == IF raised THEN 0 ELSE n
         done == rss_papers > 0 \/ run.feeds + 1 = working_rss_urls(run.scraper)
     IN  run' = [run EXCEPT
           !.feeds = @ + 1,
           !.live = @ + rss_papers,
           !.pc = IF ~done THEN "rss"
                  ELSE IF run.scraper = "JASA" THEN "crossref" ELSE "fallback"]
  /\ UNCHANGED <<db, tx, call, last, resp, clock, io>>

\* WorkingJASAScraper: `if len(papers) < 10:` scrape_crossref(), which
\* raised or returned n records
working_crossref(raised, n) ==
  /\ run.pc = "crossref"
  /\ run' = IF run.live < CrossrefBelow
              THEN [run EXCEPT !.crossref = TRUE, !.pc = "fallback",
                               !.live = @ + (IF raised THEN 0 ELSE n)]
              ELSE [run EXCEPT !.pc = "fallback"]
  /\ UNCHANGED <<db, tx, call, last, resp, clock, io>>

\* `if len(papers) < 5:` the fallback papers are appended
fallback_when(live) == live < FallbackBelow

\* papers.extend(fallback papers) when called for, and return papers[:limit]
working_return ==
  /\ run.pc = "fallback"
  /\ LET limit == working_limit(run.scraper)
         fallback == IF fallback_when(run.live)
                       THEN working_fallback_papers(run.scraper) ELSE 0
         kept == Min(run.live, limit)
     IN  run' = [run EXCEPT
           !.pc = "returned",
           !.result = [live |-> kept, fallback |-> Min(fallback, limit - kept)]]
  /\ UNCHANGED <<db, tx, call, last, resp, clock, io>>

InitWorking ==
  /\ db = EmptyStore
  /\ tx = [s \in Sessions |-> EmptyTx]
  /\ call = [s \in Sessions |-> Idle]
  /\ last = [s \in Sessions |-> [op |-> "none"]]
  /\ resp = <<>>
  /\ clock = Now0
  /\ io = <<>>
  /\ run = NoWorkingRun

NextWorking ==
  \/ \E scraper \in WorkingScrapers : working_begin(scraper)
  \/ \E raised \in BOOLEAN, n \in LiveCounts : working_rss(raised, n)
  \/ \E raised \in BOOLEAN, n \in LiveCounts : working_crossref(raised, n)
  \/ working_return

SpecWorking == InitWorking /\ [][NextWorking]_vars

\* C27: a result of scrape_papers that contains a live record contains no
\* hardcoded fallback record.
C27_FallbackOnlyWhenNoLive ==
  run.pc = "returned" => (run.result.fallback > 0 => run.result.live = 0)

----------------------------------------------------------------------------
(* SpecRecent: IncrementalScrapers.is_paper_recent over papers whose dates *)
(* are absent, datetime objects or strings, as the filter of the           *)
(* incremental run applies it                                              *)

\* get_recent_cutoff_date(days_back=60)
DaysBack == 60
get_recent_cutoff_date(now, days_back) == now - days_back * DaySeconds

\* a date field of a scraped record: None, a datetime, or a string
NoValue == [kind |-> "none"]
Datetime(at) == [kind |-> "datetime", at |-> at]
Text(text) == [kind |-> "str", text |-> text]

\* one day and sixty-one days before the run, and strings that
\* fromisoformat accepts and rejects
DateValues ==
  { NoValue, Datetime(Now0 - DaySeconds), Datetime(Now0 - 61 * DaySeconds),
    Text("2025-07-04T00:00:00"), Text("yesterday") }

\* the value of a date after `if isinstance(d, str): try: d =
\* datetime.fromisoformat(...) except: d = None`
as_datetime(d) ==
  IF d.kind = "str"
    THEN IF d.text \in IsoDates THEN Datetime(fromisoformat(d.text)) ELSE NoValue
    ELSE d

\* `if d: ... if d and d >= cutoff_date`
on_or_after(d, cutoff_date) ==
  /\ d.kind # "none"
  /\ as_datetime(d).kind = "datetime"
  /\ as_datetime(d).at >= cutoff_date

\* is_paper_recent(paper_data, cutoff_date): True from either date, and
\* `return True` at the end
is_paper_recent(paper_data, cutoff_date) ==
  IF on_or_after(paper_data.publication_date, cutoff_date) THEN TRUE
  ELSE IF on_or_after(paper_data.scraped_date, cutoff_date) THEN TRUE
  ELSE TRUE

\* main: `if IncrementalScrapers.is_paper_recent(paper, cutoff_date)` for
\* one scraped paper
is_paper_recent_call(paper_data) ==
  /\ Len(io.log) < MaxCalls
  /\ LET cutoff_date == get_recent_cutoff_date(clock, DaysBack)
     IN  io' = [io EXCEPT !.log = Append(@,
                  [paper |-> paper_data, cutoff_date |-> cutoff_date,
                   recent |-> is_paper_recent(paper_data, cutoff_date)])]
  /\ UNCHANGED <<db, tx, call, last, resp, clock, run>>

NextRecent ==
  \E publication_date \in DateValues, scraped_date \in DateValues :
    is_paper_recent_call([publication_date |-> publication_date,
                          scraped_date |-> scraped_date])

SpecRecent == InitTopics /\ [][NextRecent]_vars

\* C28: a paper whose publication_date and scraped_date are both earlier
\* than the cutoff is not recent.
C28_OldIsNotRecent ==
  \A k \in 1..Len(io.log) :
    LET e == io.log[k]
        before(d) == d.kind = "datetime" /\ d.at < e.cutoff_date
    IN  (before(e.paper.publication_date) /\ before(e.paper.scraped_date))
          => ~e.recent

----------------------------------------------------------------------------
(* SpecJournals: journal initialization on stores that hold any subset of  *)
(* the five journals                                                       *)

\* the columns of Journal, which are the keywords its constructor accepts
Journal_columns == {"id", "name", "abbreviation", "url", "papers_url"}

\* the keys of the journals_data dicts of /api/init-journals, of
\* cloud_init.init_journals and of DataService._ensure_journals_exist
init_journals_keys == {"name", "short_name", "abbreviation", "url"}
cloud_init_keys == {"name", "short_name", "url"}
ensure_journals_keys == {"name", "abbreviation", "url", "papers_url"}

\* Journal(**journal_data): TypeError for a keyword that is not a column
Journal_raises(keys) == ~(keys \subseteq Journal_columns)

\* the journals of journals_data that the session does not see
missing_journals(s) == journals_data \ View(db, tx[s]).journals

\* POST /api/init-journals: the loop over journals_data, db.commit() and
\* the response; or db.rollback() and HTTPException(500)
init_journals(s) ==
  /\ call[s].op = "idle"
  /\ LET missing == missing_journals(s)
     IN  IF missing # {} /\ Journal_raises(init_journals_keys)
           THEN /\ tx' = [tx EXCEPT ![s] = rollback(tx[s])]
                /\ Return(s, "init_journals", <<>>, [status |-> "error"], db, FALSE, 0)
                /\ UNCHANGED <<db, resp, clock, io, run>>
           ELSE /\ db' = [commit(db, tx[s]) EXCEPT !.journals = @ \cup missing]
                /\ tx' = [tx EXCEPT ![s] = EmptyTx]
                /\ Return(s, "init_journals", <<>>,
                          [status |-> "success",
                           created_journals |-> Cardinality(missing)],
                          db, FALSE, 0)
                /\ UNCHANGED <<resp, clock, io, run>>

\* cloud_init.init_journals(db): the same loop outside any try (the
\* exception propagates), then db.commit()
cloud_init_journals(s) ==
  /\ call[s].op = "idle"
  /\ LET missing == missing_journals(s)
     IN  IF missing # {} /\ Journal_raises(cloud_init_keys)
           THEN /\ Return(s, "cloud_init", <<>>, [status |-> "error"], db, FALSE, 0)
                /\ UNCHANGED <<db, tx, resp, clock, io, run>>
           ELSE /\ db' = [commit(db, tx[s]) EXCEPT !.journals = @ \cup missing]
                /\ tx' = [tx EXCEPT ![s] = EmptyTx]
                /\ Return(s, "cloud_init", <<>>,
                          [status |-> "success",
                           created_journals |-> Cardinality(missing)],
                          db, FALSE, 0)
                /\ UNCHANGED <<resp, clock, io, run>>

\* DataService(db): _ensure_journals_exist and its commit
_ensure_journals_exist(s) ==
  /\ call[s].op = "idle"
  /\ ~Journal_raises(ensure_journals_keys)
  /\ db' = [commit(db, tx[s]) EXCEPT !.journals = @ \cup missing_journals(s)]
  /\ tx' = [tx EXCEPT ![s] = EmptyTx]
  /\ Return(s, "DataService", <<>>, [status |-> "success"], db, FALSE, 0)
  /\ UNCHANGED <<resp, clock, io, run>>

\* create_tables() has run; any of the five journals may be stored
InitJournals ==
  /\ \E stored \in SUBSET journals_data :
       db = [EmptyStore EXCEPT !.journals = stored]
  /\ tx = [s \in Sessions |-> EmptyTx]
  /\ call = [s \in Sessions |-> Idle]
  /\ last = [s \in Sessions |-> [op |-> "none"]]
  /\ resp = <<>>
  /\ clock = Now0
  /\ io = <<>>
  /\ run = <<>>

NextJournals ==
  \/ init_journals(1)
  \/ cloud_init_journals(1)
  \/ _ensure_journals_exist(1)

SpecJournals == InitJournals /\ [][NextJournals]_vars

\* C29: journal initialization completes without error; afterwards the five
\* journals are stored, the journals stored before are still there, and the
\* created count is the number that was missing.
C29_JournalsInitialized ==
  last[1].op \in {"init_journals", "cloud_init"} =>
    /\ last[1].ret.status = "success"
    /\ db.journals = journals_data
    /\ last[1].snap.journals \subseteq db.journals
    /\ last[1].ret.created_journals =
         Cardinality(journals_data \ last[1].snap.journals)

----------------------------------------------------------------------------
(* SpecRepeat: save_paper on two sessions, over records with one author    *)
(* and a record whose author list repeats that author's name               *)

RepeatRecords ==
  [ journal : {"Annals of Statistics"}, title : {Title1, Title2},
    doi : {None}, authors : {<<"A. Smith">>},
    publication_date : {NoDate}, scraped_date : {NoDate}, fault : {"none"} ]
  \cup
  [ journal : {"Annals of Statistics"}, title : {TitleLasso},
    doi : {None}, authors : {<<"A. Smith", " A. Smith">>},
    publication_date : {NoDate}, scraped_date : {NoDate}, fault : {"none"} ]

NextRepeat ==
  \/ \E s \in Sessions, rec \in RepeatRecords : Room /\ save_paper_lookup(s, rec)
  \/ \E s \in Sessions : save_paper_insert(s)
  \/ \E s \in Sessions : save_paper_author(s)
  \/ \E s \in Sessions : save_paper_topics(s)
  \/ \E s \in Sessions : save_paper_commit(s)

SpecRepeat == InitStore /\ [][NextRepeat]_vars

\* the author list repeats a name, whitespace stripped
Repeats(authors) ==
  \E i, j \in 1..Len(authors) : i < j /\ strip(authors[i]) = strip(authors[j])

\* C30: a save_paper call for a record whose author list repeats a name
\* returns False, and no paper of that record is stored.
C30_RepeatedNameRejected ==
  \A s \in Sessions :
    (last[s].op = "save_paper" /\ Repeats(authors_of(last[s].rec))) =>
      /\ ~last[s].ret
      /\ \A p \in db.papers : p.title # last[s].rec.title

====
